---- MODULE Spec2Model ----
(***************************************************************************)
(* Catalog reconciliation and profitability pipeline (src/lib/processor.ts)*)
(* and the greedy order builder (src/lib/orderBuilder.ts).                 *)
(*                                                                         *)
(* JavaScript values are modelled as tagged records (JsVal): numbers are   *)
(* exact rationals n/d in lowest terms, strings are sequences of           *)
(* one-character strings, undefined and NaN are their own kinds.  Exact    *)
(* rational arithmetic stands for IEEE-754 doubles: rounding is not        *)
(* modelled.                                                               *)
(***************************************************************************)
EXTENDS Integers, Sequences, FiniteSets, TLC

VARIABLES
    \* ---- processData run (src/lib/processor.ts) ----
    inp,          \* the inputs of the run: files, cost file, stock file, shipping, misc
    pc,           \* position of the run inside handleProcess / processData
    mergedMainData, \* handleProcess: the rows of all main files under standard keys
    processed,    \* the working record list ("processed")
    mapped,       \* the list returned by mapAndSanitize (kept for reference)
    extraCols,    \* (processed as any)._extraCostColumns
    \* ---- generateOrder run (src/lib/orderBuilder.ts) ----
    products,     \* argument: the product list
    budget,       \* argument: the budget
    opc,          \* position of the run inside generateOrder
    cands,        \* scoredCandidates, sorted
    pos,          \* index of the next candidate of the allocation walk
    orderItems,   \* orderItems
    currentSpend, \* currentSpend
    \* ---- a call of one exported helper (src/lib/processor.ts) ----
    fn,           \* the helper under call
    args,         \* its arguments, as the caller holds them
    ret           \* the values returned so far

vars == <<inp, pc, mergedMainData, processed, mapped, extraCols,
          products, budget, opc, cands, pos, orderItems, currentSpend,
          fn, args, ret>>

pipeVars  == <<inp, pc, mergedMainData, processed, mapped, extraCols>>
orderVars == <<products, budget, opc, cands, pos, orderItems, currentSpend>>
callVars  == <<fn, args, ret>>

-----------------------------------------------------------------------------
(* Characters and strings                                                  *)

DigitChars == <<"0", "1", "2", "3", "4", "5", "6", "7", "8", "9">>
LowerChars == <<"a", "b", "c", "d", "e", "f", "g", "h", "i", "j", "k", "l", "m",
                "n", "o", "p", "q", "r", "s", "t", "u", "v", "w", "x", "y", "z">>
UpperChars == <<"A", "B", "C", "D", "E", "F", "G", "H", "I", "J", "K", "L", "M",
                "N", "O", "P", "Q", "R", "S", "T", "U", "V", "W", "X", "Y", "Z">>

Range(f) == {f[i] : i \in DOMAIN f}

Digits       == Range(DigitChars)
LowerLetters == Range(LowerChars)
UpperLetters == Range(UpperChars)

IsDigit(c) == c \in Digits
IsLower(c) == c \in LowerLetters
IsUpper(c) == c \in UpperLetters
IsSpace(c) == c = " "

IndexIn(c, tbl) == CHOOSE i \in DOMAIN tbl : tbl[i] = c

DigitOf == [c \in Digits |-> IndexIn(c, DigitChars) - 1]
LowerOf == [c \in UpperLetters |-> LowerChars[IndexIn(c, UpperChars)]]
UpperOf == [c \in LowerLetters |-> UpperChars[IndexIn(c, LowerChars)]]

DigitVal(c) == DigitOf[c]

LowerChar(c) == IF IsUpper(c) THEN LowerOf[c] ELSE c
UpperChar(c) == IF IsLower(c) THEN UpperOf[c] ELSE c

\* F applied to the value of x (x is evaluated once, before F)
WithValue(x, F(_)) == CHOOSE r \in {F(v) : v \in {x}} : TRUE

\* String.prototype.toLowerCase / toUpperCase
ToLowerCase(s) == [i \in DOMAIN s |-> LowerChar(s[i])]
ToUpperCase(s) == [i \in DOMAIN s |-> UpperChar(s[i])]

\* s.replace(/[^...]/g, '') : keep the characters satisfying Keep
KeepChars(s, Keep(_)) == SelectSeq(s, Keep)

IsNumChar(c)   == IsDigit(c) \/ c = "."
IsAlnum(c)     == IsDigit(c) \/ IsLower(c) \/ IsUpper(c)
IsLowAlnum(c)  == IsDigit(c) \/ IsLower(c)

\* String.prototype.trim
RECURSIVE TrimLeft(_)
TrimLeft(s) == IF s # <<>> /\ IsSpace(Head(s)) THEN TrimLeft(Tail(s)) ELSE s
RECURSIVE TrimRight(_)
TrimRight(s) ==
    IF s # <<>> /\ IsSpace(s[Len(s)]) THEN TrimRight(SubSeq(s, 1, Len(s) - 1)) ELSE s
Trim(s) == TrimRight(TrimLeft(s))

\* String.prototype.includes
Includes(s, sub) ==
    \E i \in 0..(Len(s) - Len(sub)) : SubSeq(s, i + 1, i + Len(sub)) = sub

\* String.prototype.endsWith
EndsWith(s, suf) ==
    /\ Len(s) >= Len(suf)
    /\ SubSeq(s, Len(s) - Len(suf) + 1, Len(s)) = suf

-----------------------------------------------------------------------------
(* Numbers: exact rationals                                                *)

Abs(x) == IF x < 0 THEN -x ELSE x

RECURSIVE GCD(_, _)
GCD(a, b) == IF b = 0 THEN a ELSE GCD(b, a % b)

RECURSIVE Pow10(_)
Pow10(k) == IF k = 0 THEN 1 ELSE 10 * Pow10(k - 1)

\* The JavaScript value kinds of the model
Undef     == [k |-> "undef", n |-> 0, d |-> 1, s |-> <<>>]
NaN       == [k |-> "nan",   n |-> 0, d |-> 1, s |-> <<>>]
Str(s)    == [k |-> "str",   n |-> 0, d |-> 1, s |-> s]
Bool(b)   == [k |-> "bool",  n |-> (IF b THEN 1 ELSE 0), d |-> 1, s |-> <<>>]
\* +Infinity / -Infinity (n is the sign)
Inf(sign) == [k |-> "inf",   n |-> sign, d |-> 1, s |-> <<>>]
\* the number n/d, d > 0, in lowest terms
Num(n, d) ==
    LET g == GCD(Abs(n), d)
    IN  [k |-> "num", n |-> n \div g, d |-> d \div g, s |-> <<>>]
IntV(n)   == Num(n, 1)

IsNum(v)   == v.k = "num"
IsStr(v)   == v.k = "str"
IsUndef(v) == v.k = "undef"
IsNaN(v)   == v.k = "nan"

\* ToBoolean
Truthy(v) ==
    CASE v.k = "num"   -> v.n # 0
      [] v.k = "str"   -> v.s # <<>>
      [] v.k = "bool"  -> v.n = 1
      [] v.k = "inf"   -> TRUE
      [] OTHER         -> FALSE

\* a || b
OrElse(a, b) == IF Truthy(a) THEN a ELSE b

-----------------------------------------------------------------------------
(* Number <-> string conversions                                           *)

\* the longest prefix of s made of digits
RECURSIVE TakeDigits(_)
TakeDigits(s) ==
    IF s # <<>> /\ IsDigit(Head(s)) THEN <<Head(s)>> \o TakeDigits(Tail(s)) ELSE <<>>

RECURSIVE DigitsToInt(_)
DigitsToInt(ds) ==
    IF ds = <<>> THEN 0
    ELSE 10 * DigitsToInt(SubSeq(ds, 1, Len(ds) - 1)) + DigitVal(ds[Len(ds)])

\* The decimal literal at the start of s: an optional sign, digits, an optional
\* "." and digits (exponents are not modelled).  lit is its length, 0 when s does
\* not start with a number.
DecimalPrefix(s) ==
    WithValue(IF s # <<>> /\ Head(s) \in {"+", "-"} THEN 1 ELSE 0, LAMBDA sgn :
    WithValue(TakeDigits(SubSeq(s, sgn + 1, Len(s))), LAMBDA ip :
    WithValue(SubSeq(s, sgn + Len(ip) + 1, Len(s)), LAMBDA rest :
    WithValue(rest # <<>> /\ Head(rest) = ".", LAMBDA dot :
    WithValue(IF dot THEN TakeDigits(Tail(rest)) ELSE <<>>, LAMBDA fp :
        [ok  |-> ip # <<>> \/ fp # <<>>,
         lit |-> IF ip # <<>> \/ fp # <<>>
                 THEN sgn + Len(ip) + (IF dot THEN 1 + Len(fp) ELSE 0) ELSE 0,
         val |-> Num((IF sgn = 1 /\ Head(s) = "-" THEN -1 ELSE 1) * DigitsToInt(ip \o fp),
                     Pow10(Len(fp)))])))))

\* parseFloat applied to a string
ParseFloatStr(s) ==
    WithValue(DecimalPrefix(TrimLeft(s)), LAMBDA p : IF p.ok THEN p.val ELSE NaN)

\* Number(string): the whole trimmed string must be a numeric literal; "" is 0
StrToNumber(s) ==
    WithValue(Trim(s), LAMBDA t :
        IF t = <<>> THEN IntV(0)
        ELSE WithValue(DecimalPrefix(t), LAMBDA p :
                 IF p.ok /\ p.lit = Len(t) THEN p.val ELSE NaN))

RECURSIVE NatToStr(_)
NatToStr(n) ==
    IF n < 10 THEN <<DigitChars[n + 1]>>
    ELSE NatToStr(n \div 10) \o <<DigitChars[(n % 10) + 1]>>

\* n as exactly k digits, zero padded on the left
RECURSIVE PadDigits(_, _)
PadDigits(n, k) ==
    IF k = 0 THEN <<>> ELSE PadDigits(n \div 10, k - 1) \o <<DigitChars[(n % 10) + 1]>>

\* the number of decimals of the terminating decimal n/d (up to 6; a rational
\* that does not terminate within 6 decimals is cut there)
Decimals(d) ==
    IF \E k \in 0..6 : Pow10(k) % d = 0
    THEN CHOOSE k \in 0..6 : Pow10(k) % d = 0 /\ \A j \in 0..(k - 1) : Pow10(j) % d # 0
    ELSE 6

\* String(number) for a finite number
NumToStr(v) ==
    LET k    == Decimals(v.d)
        a    == Abs(v.n)
        ip   == a \div v.d
        fr   == ((a % v.d) * Pow10(k)) \div v.d
    IN  (IF v.n < 0 THEN <<"-">> ELSE <<>>)
        \o NatToStr(ip)
        \o (IF k = 0 THEN <<>> ELSE <<".">> \o PadDigits(fr, k))

\* Number.prototype.toFixed(2), rounding half up
ToFixed2(v) ==
    LET a    == Abs(v.n)
        c    == (2 * a * 100 + v.d) \div (2 * v.d)
    IN  (IF v.n < 0 /\ c # 0 THEN <<"-">> ELSE <<>>)
        \o NatToStr(c \div 100) \o <<".">> \o PadDigits(c % 100, 2)

\* String(v)
ToStr(v) ==
    CASE v.k = "str"   -> v.s
      [] v.k = "num"   -> NumToStr(v)
      [] v.k = "nan"   -> <<"N", "a", "N">>
      [] v.k = "undef" -> <<"u", "n", "d", "e", "f", "i", "n", "e", "d">>
      [] v.k = "bool"  -> IF v.n = 1 THEN <<"t", "r", "u", "e">>
                          ELSE <<"f", "a", "l", "s", "e">>
      [] OTHER         -> (IF v.n < 0 THEN <<"-">> ELSE <<>>)
                          \o <<"I", "n", "f", "i", "n", "i", "t", "y">>

\* ToNumber (Number(v), and the coercion of the arithmetic operators)
ToNumber(v) ==
    CASE v.k = "str"   -> StrToNumber(v.s)
      [] v.k = "undef" -> NaN
      [] v.k = "bool"  -> IntV(v.n)
      [] OTHER         -> v

\* parseFloat(v): String(v), then the leading decimal literal
ParseFloat(v) ==
    CASE v.k = "num" -> v
      [] v.k = "inf" -> v
      [] v.k = "nan" -> NaN
      [] OTHER       -> ParseFloatStr(ToStr(v))

\* parseInt(string): the leading integer literal
ParseIntStr(s) ==
    WithValue(TrimLeft(s), LAMBDA t :
    WithValue(IF t # <<>> /\ Head(t) \in {"+", "-"} THEN 1 ELSE 0, LAMBDA sgn :
    WithValue(TakeDigits(SubSeq(t, sgn + 1, Len(t))), LAMBDA ds :
        IF ds = <<>> THEN NaN
        ELSE IF sgn = 1 /\ Head(t) = "-" THEN IntV(-DigitsToInt(ds))
        ELSE IntV(DigitsToInt(ds)))))

-----------------------------------------------------------------------------
(* Arithmetic on number-kind values (num, nan, inf)                        *)

Sign(x) == IF x < 0 THEN -1 ELSE IF x > 0 THEN 1 ELSE 0

NAdd(a, b) ==
    CASE a.k = "nan" \/ b.k = "nan" -> NaN
      [] a.k = "inf" /\ b.k = "inf" -> IF a.n = b.n THEN a ELSE NaN
      [] a.k = "inf"                -> a
      [] b.k = "inf"                -> b
      [] OTHER                      -> Num(a.n * b.d + b.n * a.d, a.d * b.d)

NNeg(a) ==
    CASE a.k = "nan" -> NaN
      [] a.k = "inf" -> Inf(-a.n)
      [] OTHER       -> Num(-a.n, a.d)

NSub(a, b) == NAdd(a, NNeg(b))

NMul(a, b) ==
    CASE a.k = "nan" \/ b.k = "nan" -> NaN
      [] a.k = "inf" \/ b.k = "inf" ->
            IF Sign(a.n) * Sign(b.n) = 0 THEN NaN ELSE Inf(Sign(a.n) * Sign(b.n))
      [] OTHER                      -> Num(a.n * b.n, a.d * b.d)

NDiv(a, b) ==
    CASE a.k = "nan" \/ b.k = "nan" -> NaN
      [] a.k = "inf" /\ b.k = "inf" -> NaN
      [] a.k = "inf"                -> Inf(IF b.n < 0 THEN -a.n ELSE a.n)
      [] b.k = "inf"                -> IntV(0)
      [] b.n = 0                    -> IF a.n = 0 THEN NaN ELSE Inf(Sign(a.n))
      [] OTHER                      -> Num(Sign(b.n) * a.n * b.d, Abs(b.n) * a.d)

\* a < b on number-kind values (false when either is NaN)
NLt(a, b) ==
    CASE a.k = "nan" \/ b.k = "nan" -> FALSE
      [] a.k = "inf" /\ b.k = "inf" -> a.n < b.n
      [] a.k = "inf"                -> a.n < 0
      [] b.k = "inf"                -> b.n > 0
      [] OTHER                      -> a.n * b.d < b.n * a.d
NEq(a, b) ==
    CASE a.k = "nan" \/ b.k = "nan" -> FALSE
      [] a.k = "inf" \/ b.k = "inf" -> a.k = b.k /\ a.n = b.n
      [] OTHER                      -> a.n * b.d = b.n * a.d
NLe(a, b) == NLt(a, b) \/ NEq(a, b)
NGt(a, b) == NLt(b, a)
NGe(a, b) == NLe(b, a)

\* Math.floor, Math.min, Math.max
NFloor(a) == IF a.k = "num" THEN IntV(a.n \div a.d) ELSE a
NMin(a, b) ==
    IF a.k = "nan" \/ b.k = "nan" THEN NaN ELSE IF NLt(b, a) THEN b ELSE a
NMax(a, b) ==
    IF a.k = "nan" \/ b.k = "nan" THEN NaN ELSE IF NLt(a, b) THEN b ELSE a

(* The JavaScript operators on arbitrary values *)
\* a + b : concatenation when either side is a string
JsAdd(a, b) ==
    IF a.k = "str" \/ b.k = "str" THEN Str(ToStr(a) \o ToStr(b))
    ELSE NAdd(ToNumber(a), ToNumber(b))
JsSub(a, b) == NSub(ToNumber(a), ToNumber(b))
JsMul(a, b) == NMul(ToNumber(a), ToNumber(b))
JsDiv(a, b) == NDiv(ToNumber(a), ToNumber(b))
\* relational operators with a number on one side
JsLt(a, b)  == NLt(ToNumber(a), ToNumber(b))
JsLe(a, b)  == NLe(ToNumber(a), ToNumber(b))
JsGt(a, b)  == NGt(ToNumber(a), ToNumber(b))
\* a === b
StrictEq(a, b) ==
    CASE a.k # b.k     -> FALSE
      [] a.k = "nan"   -> FALSE
      [] OTHER         -> a = b

-----------------------------------------------------------------------------
(* Configuration tables (src/lib/utils)                                    *)

\* COLUMN_PATTERNS, in insertion order (the truck emoji of the Buy Box patterns is
\* written "#": canonicalize strips either)
COLUMN_PATTERNS ==
    << [standard |-> "Brand",
          patterns |-> <<<<"B", "r", "a", "n", "d">>>>],
       [standard |-> "Parent",
          patterns |-> <<<<"P", "a", "r", "e", "n", "t", " ", "A", "S", "I", "N">>,
                        <<"P", "a", "r", "e", "n", "t">>>>],
       [standard |-> "ASIN",
          patterns |-> <<<<"A", "S", "I", "N">>>>],
       [standard |-> "Imported by Code",
          patterns |-> <<<<"I", "m", "p", "o", "r", "t", "e", "d", " ", "b", "y", " ", "C", "o", "d", "e">>,
                        <<"I", "m", "p", "o", "r", "t", " ", "C", "o", "d", "e">>,
                        <<"U", "P", "C">>,
                        <<"G", "T", "I", "N">>,
                        <<"E", "A", "N">>,
                        <<"P", "r", "o", "d", "u", "c", "t", " ", "I", "D">>,
                        <<"B", "a", "r", "c", "o", "d", "e">>,
                        <<"E", "x", "t", "e", "r", "n", "a", "l", " ", "I", "D">>>>],
       [standard |-> "Title",
          patterns |-> <<<<"T", "i", "t", "l", "e">>,
                        <<"P", "r", "o", "d", "u", "c", "t", " ", "T", "i", "t", "l", "e">>>>],
       [standard |-> "Color",
          patterns |-> <<<<"C", "o", "l", "o", "r">>,
                        <<"C", "o", "l", "o", "u", "r">>>>],
       [standard |-> "Size",
          patterns |-> <<<<"S", "i", "z", "e">>>>],
       [standard |-> "Sales Badge",
          patterns |-> <<<<"B", "o", "u", "g", "h", "t", " ", "i", "n", " ", "p", "a", "s", "t", " ", "m", "o", "n", "t", "h">>,
                        <<"B", "o", "u", "g", "h", "t", " ", "i", "n", " ", "l", "a", "s", "t", " ", "m", "o", "n", "t", "h">>,
                        <<"S", "a", "l", "e", "s", " ", "B", "a", "d", "g", "e">>>>],
       [standard |-> "Rating Count",
          patterns |-> <<<<"R", "e", "v", "i", "e", "w", "s", ":", " ", "R", "a", "t", "i", "n", "g", " ", "C", "o", "u", "n", "t">>,
                        <<"R", "a", "t", "i", "n", "g", " ", "C", "o", "u", "n", "t">>,
                        <<"T", "o", "t", "a", "l", " ", "R", "a", "t", "i", "n", "g", "s">>>>],
       [standard |-> "Rating Count - Child",
          patterns |-> <<<<"R", "e", "v", "i", "e", "w", "s", ":", " ", "R", "e", "v", "i", "e", "w", " ", "C", "o", "u", "n", "t", " ", "-", " ", "F", "o", "r", "m", "a", "t", " ", "S", "p", "e", "c", "i", "f", "i", "c">>,
                        <<"R", "a", "t", "i", "n", "g", " ", "C", "o", "u", "n", "t", " ", "-", " ", "C", "h", "i", "l", "d">>>>],
       [standard |-> "Sales Rank",
          patterns |-> <<<<"S", "a", "l", "e", "s", " ", "R", "a", "n", "k", ":", " ", "C", "u", "r", "r", "e", "n", "t">>,
                        <<"S", "a", "l", "e", "s", " ", "R", "a", "n", "k">>,
                        <<"C", "u", "r", "r", "e", "n", "t", " ", "R", "a", "n", "k">>>>],
       [standard |-> "Sales Rank 30",
          patterns |-> <<<<"S", "a", "l", "e", "s", " ", "R", "a", "n", "k", ":", " ", "3", "0", " ", "d", "a", "y", "s", " ", "a", "v", "g", ".">>,
                        <<"S", "a", "l", "e", "s", " ", "R", "a", "n", "k", " ", "3", "0">>>>],
       [standard |-> "Sales Rank 90",
          patterns |-> <<<<"S", "a", "l", "e", "s", " ", "R", "a", "n", "k", ":", " ", "9", "0", " ", "d", "a", "y", "s", " ", "a", "v", "g", ".">>,
                        <<"S", "a", "l", "e", "s", " ", "R", "a", "n", "k", " ", "9", "0">>>>],
       [standard |-> "Buy Box",
          patterns |-> <<<<"B", "u", "y", " ", "B", "o", "x", " ", "#", ":", " ", "C", "u", "r", "r", "e", "n", "t">>,
                        <<"B", "u", "y", " ", "B", "o", "x">>,
                        <<"C", "u", "r", "r", "e", "n", "t", " ", "B", "u", "y", " ", "B", "o", "x">>>>],
       [standard |-> "Buy Box 30",
          patterns |-> <<<<"B", "u", "y", " ", "B", "o", "x", " ", "#", ":", " ", "3", "0", " ", "d", "a", "y", "s", " ", "a", "v", "g", ".">>,
                        <<"B", "u", "y", " ", "B", "o", "x", " ", "3", "0">>>>],
       [standard |-> "Buy Box 90",
          patterns |-> <<<<"B", "u", "y", " ", "B", "o", "x", " ", "#", ":", " ", "9", "0", " ", "d", "a", "y", "s", " ", "a", "v", "g", ".">>,
                        <<"B", "u", "y", " ", "B", "o", "x", " ", "9", "0">>>>],
       [standard |-> "Buy Box 180",
          patterns |-> <<<<"B", "u", "y", " ", "B", "o", "x", " ", "#", ":", " ", "1", "8", "0", " ", "d", "a", "y", "s", " ", "a", "v", "g", ".">>,
                        <<"B", "u", "y", " ", "B", "o", "x", " ", "1", "8", "0">>>>],
       [standard |-> "AMZ In Stock %",
          patterns |-> <<<<"B", "u", "y", " ", "B", "o", "x", ":", " ", "%", " ", "A", "m", "a", "z", "o", "n", " ", "9", "0", " ", "d", "a", "y", "s">>,
                        <<"A", "M", "Z", " ", "I", "n", " ", "S", "t", "o", "c", "k", " ", "%">>>>],
       [standard |-> "Amazon Availability",
          patterns |-> <<<<"A", "m", "a", "z", "o", "n", ":", " ", "A", "v", "a", "i", "l", "a", "b", "i", "l", "i", "t", "y", " ", "o", "f", " ", "t", "h", "e", " ", "A", "m", "a", "z", "o", "n", " ", "o", "f", "f", "e", "r">>,
                        <<"A", "m", "a", "z", "o", "n", " ", "A", "v", "a", "i", "l", "a", "b", "i", "l", "i", "t", "y">>>>],
       [standard |-> "FBA",
          patterns |-> <<<<"C", "o", "u", "n", "t", " ", "o", "f", " ", "r", "e", "t", "r", "i", "e", "v", "e", "d", " ", "l", "i", "v", "e", " ", "o", "f", "f", "e", "r", "s", ":", " ", "N", "e", "w", ",", " ", "F", "B", "A">>,
                        <<"F", "B", "A">>,
                        <<"F", "B", "A", " ", "S", "e", "l", "l", "e", "r", "s">>>>],
       [standard |-> "FBM",
          patterns |-> <<<<"C", "o", "u", "n", "t", " ", "o", "f", " ", "r", "e", "t", "r", "i", "e", "v", "e", "d", " ", "l", "i", "v", "e", " ", "o", "f", "f", "e", "r", "s", ":", " ", "N", "e", "w", ",", " ", "F", "B", "M">>,
                        <<"F", "B", "M">>,
                        <<"F", "B", "M", " ", "S", "e", "l", "l", "e", "r", "s">>>>],
       [standard |-> "Pick & Pack",
          patterns |-> <<<<"F", "B", "A", " ", "P", "i", "c", "k", "&", "P", "a", "c", "k", " ", "F", "e", "e">>,
                        <<"P", "i", "c", "k", " ", "&", " ", "P", "a", "c", "k", " ", "F", "e", "e">>,
                        <<"F", "u", "l", "f", "i", "l", "l", "m", "e", "n", "t", " ", "F", "e", "e">>>>],
       [standard |-> "Referral Fee &",
          patterns |-> <<<<"R", "e", "f", "e", "r", "r", "a", "l", " ", "F", "e", "e", " ", "%">>,
                        <<"R", "e", "f", "e", "r", "r", "a", "l", " ", "F", "e", "e">>>>],
       [standard |-> "In Stock",
          patterns |-> <<<<"I", "n", " ", "S", "t", "o", "c", "k">>,
                        <<"S", "t", "o", "c", "k">>,
                        <<"Q", "u", "a", "n", "t", "i", "t", "y">>,
                        <<"Q", "T", "Y">>,
                        <<"A", "v", "a", "i", "l", "a", "b", "l", "e">>>>],
       [standard |-> "Sales",
          patterns |-> <<<<"S", "a", "l", "e", "s">>,
                        <<"U", "n", "i", "t", "s", " ", "S", "o", "l", "d">>,
                        <<"S", "o", "l", "d">>,
                        <<"M", "o", "n", "t", "h", "l", "y", " ", "S", "a", "l", "e", "s">>>>] >>

\* COST_PATTERNS, in insertion order
COST_PATTERNS ==
    << [standard |-> "Imported by Code",
          patterns |-> <<<<"I", "m", "p", "o", "r", "t", "e", "d", " ", "b", "y", " ", "C", "o", "d", "e">>,
                        <<"I", "m", "p", "o", "r", "t", " ", "C", "o", "d", "e">>,
                        <<"U", "P", "C">>,
                        <<"G", "T", "I", "N">>,
                        <<"E", "A", "N">>,
                        <<"P", "r", "o", "d", "u", "c", "t", " ", "I", "D">>,
                        <<"B", "a", "r", "c", "o", "d", "e">>,
                        <<"E", "x", "t", "e", "r", "n", "a", "l", " ", "I", "D">>>>],
       [standard |-> "COST",
          patterns |-> <<<<"C", "o", "s", "t">>,
                        <<"P", "r", "i", "c", "e">>,
                        <<"U", "n", "i", "t", " ", "C", "o", "s", "t">>,
                        <<"W", "h", "o", "l", "e", "s", "a", "l", "e", " ", "P", "r", "i", "c", "e">>,
                        <<"W", "S", "P">>>>],
       [standard |-> "MSRP",
          patterns |-> <<<<"M", "S", "R", "P">>,
                        <<"R", "e", "t", "a", "i", "l", " ", "P", "r", "i", "c", "e">>,
                        <<"R", "e", "t", "a", "i", "l">>,
                        <<"R", "R", "P">>>>] >>

\* the spelling of each object key of the model
KeyChars ==
    ("Brand" :> <<"B", "r", "a", "n", "d">>)
    @@ ("Parent" :> <<"P", "a", "r", "e", "n", "t">>)
    @@ ("ASIN" :> <<"A", "S", "I", "N">>)
    @@ ("Imported by Code" :> <<"I", "m", "p", "o", "r", "t", "e", "d", " ", "b", "y", " ", "C", "o", "d", "e">>)
    @@ ("Title" :> <<"T", "i", "t", "l", "e">>)
    @@ ("Color" :> <<"C", "o", "l", "o", "r">>)
    @@ ("Size" :> <<"S", "i", "z", "e">>)
    @@ ("Sales Badge" :> <<"S", "a", "l", "e", "s", " ", "B", "a", "d", "g", "e">>)
    @@ ("Rating Count" :> <<"R", "a", "t", "i", "n", "g", " ", "C", "o", "u", "n", "t">>)
    @@ ("Rating Count - Child" :> <<"R", "a", "t", "i", "n", "g", " ", "C", "o", "u", "n", "t", " ", "-", " ", "C", "h", "i", "l", "d">>)
    @@ ("Sales Rank" :> <<"S", "a", "l", "e", "s", " ", "R", "a", "n", "k">>)
    @@ ("Sales Rank 30" :> <<"S", "a", "l", "e", "s", " ", "R", "a", "n", "k", " ", "3", "0">>)
    @@ ("Sales Rank 90" :> <<"S", "a", "l", "e", "s", " ", "R", "a", "n", "k", " ", "9", "0">>)
    @@ ("Buy Box" :> <<"B", "u", "y", " ", "B", "o", "x">>)
    @@ ("Buy Box 30" :> <<"B", "u", "y", " ", "B", "o", "x", " ", "3", "0">>)
    @@ ("Buy Box 90" :> <<"B", "u", "y", " ", "B", "o", "x", " ", "9", "0">>)
    @@ ("Buy Box 180" :> <<"B", "u", "y", " ", "B", "o", "x", " ", "1", "8", "0">>)
    @@ ("AMZ In Stock %" :> <<"A", "M", "Z", " ", "I", "n", " ", "S", "t", "o", "c", "k", " ", "%">>)
    @@ ("Amazon Availability" :> <<"A", "m", "a", "z", "o", "n", " ", "A", "v", "a", "i", "l", "a", "b", "i", "l", "i", "t", "y">>)
    @@ ("FBA" :> <<"F", "B", "A">>)
    @@ ("FBM" :> <<"F", "B", "M">>)
    @@ ("Pick & Pack" :> <<"P", "i", "c", "k", " ", "&", " ", "P", "a", "c", "k">>)
    @@ ("Referral Fee &" :> <<"R", "e", "f", "e", "r", "r", "a", "l", " ", "F", "e", "e", " ", "&">>)
    @@ ("In Stock" :> <<"I", "n", " ", "S", "t", "o", "c", "k">>)
    @@ ("Sales" :> <<"S", "a", "l", "e", "s">>)
    @@ ("COST" :> <<"C", "O", "S", "T">>)
    @@ ("MSRP" :> <<"M", "S", "R", "P">>)
    @@ ("Profit" :> <<"P", "r", "o", "f", "i", "t">>)
    @@ ("ROI" :> <<"R", "O", "I">>)
    @@ ("Profit Margin (Buybox)" :> <<"P", "r", "o", "f", "i", "t", " ", "M", "a", "r", "g", "i", "n", " ", "(", "B", "u", "y", "b", "o", "x", ")">>)
    @@ ("Profit Margin (MSRP)" :> <<"P", "r", "o", "f", "i", "t", " ", "M", "a", "r", "g", "i", "n", " ", "(", "M", "S", "R", "P", ")">>)
    @@ ("MSRP Difference" :> <<"M", "S", "R", "P", " ", "D", "i", "f", "f", "e", "r", "e", "n", "c", "e">>)
    @@ ("Price Used For BB Profit" :> <<"P", "r", "i", "c", "e", " ", "U", "s", "e", "d", " ", "F", "o", "r", " ", "B", "B", " ", "P", "r", "o", "f", "i", "t">>)
    @@ ("Margin Div" :> <<"M", "a", "r", "g", "i", "n", " ", "D", "i", "v">>)
    @@ ("Total Parent Ratings" :> <<"T", "o", "t", "a", "l", " ", "P", "a", "r", "e", "n", "t", " ", "R", "a", "t", "i", "n", "g", "s">>)
    @@ ("Total Color Ratings" :> <<"T", "o", "t", "a", "l", " ", "C", "o", "l", "o", "r", " ", "R", "a", "t", "i", "n", "g", "s">>)
    @@ ("Global Color Popularity" :> <<"G", "l", "o", "b", "a", "l", " ", "C", "o", "l", "o", "r", " ", "P", "o", "p", "u", "l", "a", "r", "i", "t", "y">>)
    @@ ("_isBestColor" :> <<"_", "i", "s", "B", "e", "s", "t", "C", "o", "l", "o", "r">>)
    @@ ("_isBestVariant" :> <<"_", "i", "s", "B", "e", "s", "t", "V", "a", "r", "i", "a", "n", "t">>)
    @@ ("_styles" :> <<"_", "s", "t", "y", "l", "e", "s">>)
    @@ ("Notes" :> <<"N", "o", "t", "e", "s">>)

-----------------------------------------------------------------------------
(* Canonicalizer and column mapper                                         *)

canonicalize(str) == KeepChars(ToLowerCase(str), IsLowAlnum)

CanonicalPatterns(entry) ==
    {canonicalize(entry.patterns[i]) : i \in DOMAIN entry.patterns}

\* the index of the first unused header whose canonical form satisfies Match; 0 if none
FirstHeader(headers, used, Match(_)) ==
    LET hits == {i \in DOMAIN headers :
                    headers[i] \notin used /\ Match(canonicalize(headers[i]))}
    IN  IF hits = {} THEN 0 ELSE CHOOSE i \in hits : \A j \in hits : i <= j

\* (mutant of Assigned: the header found is not added to usedKeys)
Assigned_ForgetsUsed(st, e, headers, h) ==
    IF h = 0 THEN st
    ELSE [mapping |-> (e.standard :> headers[h]) @@ st.mapping,
          used    |-> st.used]


\* what a pass does with the header it found for table entry e
Assigned(st, e, headers, h) ==
    IF h = 0 THEN st
    ELSE [mapping |-> (e.standard :> headers[h]) @@ st.mapping,
          used    |-> st.used \cup {headers[h]}]

\* Pass 1: canonical exact match
RECURSIVE ExactPass(_, _, _, _)
ExactPass(headers, patternsMap, i, st) ==
    IF i > Len(patternsMap) THEN st
    ELSE LET e == patternsMap[i]
             h == FirstHeader(headers, st.used, LAMBDA c : c \in CanonicalPatterns(e))
         IN  WithValue(Assigned(st, e, headers, h),
                       LAMBDA s : ExactPass(headers, patternsMap, i + 1, s))

\* Pass 2: partial canonical match, for the fields still unmapped
RECURSIVE PartialPass(_, _, _, _)
PartialPass(headers, patternsMap, i, st) ==
    IF i > Len(patternsMap) THEN st
    ELSE LET e == patternsMap[i]
             h == FirstHeader(headers, st.used,
                     LAMBDA c : \E q \in CanonicalPatterns(e) :
                                    Includes(c, q) \/ Includes(q, c))
         IN  IF e.standard \in DOMAIN st.mapping
             THEN PartialPass(headers, patternsMap, i + 1, st)
             ELSE WithValue(Assigned(st, e, headers, h),
                            LAMBDA s : PartialPass(headers, patternsMap, i + 1, s))

\* (mutant of detectColumnsCall: the headers that were mapped are removed from
\* the caller's list)
detectColumnsCall_ConsumesHeaders(headers, patternsMap) ==
    WithValue(IF Len(headers) = 0 THEN [mapping |-> <<>>, used |-> {}]
              ELSE PartialPass(headers, patternsMap, 1,
                               ExactPass(headers, patternsMap, 1,
                                         [mapping |-> <<>>, used |-> {}])),
              LAMBDA s : [mapping    |-> s.mapping,
                          headers    |-> SelectSeq(headers, LAMBDA h : h \notin s.used),
                          patternsMap |-> patternsMap])

\* a mapping is a function from standard names to original headers
detectColumns(headers, patternsMap) ==
    IF Len(headers) = 0 THEN <<>>
    ELSE WithValue(ExactPass(headers, patternsMap, 1, [mapping |-> <<>>, used |-> {}]),
                   LAMBDA s : PartialPass(headers, patternsMap, 1, s)).mapping

\* a call of detectColumns: the returned mapping, and the two arguments as the
\* call leaves them (headers.map and patterns.map build new arrays; mapping and
\* usedKeys are local)
detectColumnsCall(headers, patternsMap) ==
    [mapping     |-> detectColumns(headers, patternsMap),
     headers     |-> headers,
     patternsMap |-> patternsMap]


-----------------------------------------------------------------------------
(* Code normalizer                                                         *)

\* 'nan', 'none', 'null'
EmptyCodes == {<<"n", "a", "n">>, <<"n", "o", "n", "e">>, <<"n", "u", "l", "l">>}
sDotZero == <<".", "0">>

\* returns a string
cleanProductCode(value) ==
    IF \/ IsUndef(value)
       \/ value = Str(<<>>)
       \/ ToLowerCase(ToStr(value)) \in EmptyCodes
    THEN <<>>
    ELSE WithValue(Trim(ToStr(value)), LAMBDA cleaned :
             IF EndsWith(cleaned, sDotZero)
             THEN SubSeq(cleaned, 1, Len(cleaned) - 2)
             ELSE cleaned)

RECURSIVE Zeros(_)
Zeros(k) == IF k <= 0 THEN <<>> ELSE <<"0">> \o Zeros(k - 1)

RECURSIVE StripLeadingZeros(_)
StripLeadingZeros(ds) ==
    IF Len(ds) > 1 /\ Head(ds) = "0" THEN StripLeadingZeros(Tail(ds)) ELSE ds

\* /^[-+]?[0-9]*\.?[0-9]+([eE][-+]?[0-9]+)$/ : the parts of a match
SciParts(s) ==
    WithValue(IF s # <<>> /\ Head(s) \in {"+", "-"} THEN 1 ELSE 0, LAMBDA sgn :
    WithValue(TakeDigits(SubSeq(s, sgn + 1, Len(s))), LAMBDA ip :
    WithValue(SubSeq(s, sgn + Len(ip) + 1, Len(s)), LAMBDA r1 :
    WithValue(r1 # <<>> /\ Head(r1) = ".", LAMBDA dot :
    WithValue(IF dot THEN TakeDigits(Tail(r1)) ELSE <<>>, LAMBDA fp :
    WithValue(IF dot THEN SubSeq(r1, 2 + Len(fp), Len(r1)) ELSE r1, LAMBDA r2 :
    WithValue(r2 # <<>> /\ Head(r2) \in {"e", "E"}, LAMBDA hasE :
    WithValue(IF hasE THEN Tail(r2) ELSE <<>>, LAMBDA r3 :
    WithValue(IF r3 # <<>> /\ Head(r3) \in {"+", "-"} THEN 1 ELSE 0, LAMBDA esgn :
    WithValue(SubSeq(r3, esgn + 1, Len(r3)), LAMBDA ed :
    WithValue(ed # <<>> /\ TakeDigits(ed) = ed, LAMBDA digitsOnly :
        [ok  |-> (IF dot THEN fp # <<>> ELSE ip # <<>>) /\ hasE /\ digitsOnly,
         neg |-> sgn = 1 /\ Head(s) = "-",
         ip  |-> ip,
         fp  |-> fp,
         exp |-> IF digitsOnly
                 THEN (IF esgn = 1 /\ Head(r3) = "-" THEN -1 ELSE 1) * DigitsToInt(ed)
                 ELSE 0])))))))))))

\* parseFloat(str).toLocaleString('fullwide', { useGrouping: false }) of a match:
\* plain decimal digits, at most three fraction digits (rounded half up)
ExpandScientific(sp) ==
    WithValue(sp.ip \o sp.fp, LAMBDA digits :
    WithValue(sp.exp - Len(sp.fp), LAMBDA shift :
        (IF sp.neg /\ DigitsToInt(digits) # 0 THEN <<"-">> ELSE <<>>)
        \o (IF shift >= 0 THEN StripLeadingZeros(digits \o Zeros(shift))
            ELSE WithValue(Num(DigitsToInt(digits), Pow10(-shift)), LAMBDA v :
                     NumToStr(Num((2 * v.n * 1000 + v.d) \div (2 * v.d), 1000))))))

\* (mutant of normalizeCode: the non-alphanumeric characters are kept)
normalizeCode_KeepsPunctuation(code) ==
    IF ~Truthy(code) THEN Undef
    ELSE WithValue(Trim(ToStr(code)), LAMBDA str0 :
         WithValue(SciParts(str0), LAMBDA sp :
         WithValue(IF sp.ok THEN ExpandScientific(sp) ELSE str0, LAMBDA str1 :
         WithValue(IF EndsWith(str1, sDotZero)
                   THEN SubSeq(str1, 1, Len(str1) - 2) ELSE str1,
                   LAMBDA kept :
             IF kept = <<>> THEN Undef ELSE Str(ToUpperCase(kept))))))

\* returns Str(key) or Undef (null)
normalizeCode(code) ==
    IF ~Truthy(code) THEN Undef
    ELSE WithValue(Trim(ToStr(code)), LAMBDA str0 :
         WithValue(SciParts(str0), LAMBDA sp :
         WithValue(IF sp.ok THEN ExpandScientific(sp) ELSE str0, LAMBDA str1 :
         WithValue(KeepChars(IF EndsWith(str1, sDotZero)
                             THEN SubSeq(str1, 1, Len(str1) - 2) ELSE str1, IsAlnum),
                   LAMBDA alphanumeric :
             IF alphanumeric = <<>> THEN Undef ELSE Str(ToUpperCase(alphanumeric))))))

-----------------------------------------------------------------------------
(* ProductData: a record over the standard field names; a missing key      *)
(* reads as undefined.  _styles is the set of the styled column names.     *)

NumericColumns ==
    <<"Buy Box", "Buy Box 30", "Buy Box 90", "Buy Box 180", "Sales Rank",
      "Sales Rank 30", "Sales Rank 90", "Pick & Pack", "Referral Fee &",
      "Rating Count", "Rating Count - Child", "FBA", "FBM", "AMZ In Stock %">>

\* the keys of COLUMN_PATTERNS, in table order
StandardFields == [i \in DOMAIN COLUMN_PATTERNS |-> COLUMN_PATTERNS[i].standard]

DerivedFields ==
    {"COST", "MSRP", "Profit", "ROI", "Profit Margin (Buybox)",
     "Profit Margin (MSRP)", "MSRP Difference", "Price Used For BB Profit",
     "Margin Div", "Total Parent Ratings", "Total Color Ratings",
     "Global Color Popularity", "_isBestColor", "_isBestVariant"}

\* the keys of a record: the standard fields, the derived fields and the
\* pass-through column "Notes" a cost file of the model may carry
ProductFields == Range(StandardFields) \cup DerivedFields \cup {"Notes"}

\* an object with the given keys set, every other key undefined
MkItem(o) ==
    [f \in ProductFields \cup {"_styles"} |->
        IF f \in DOMAIN o THEN o[f] ELSE IF f = "_styles" THEN {} ELSE Undef]

-----------------------------------------------------------------------------
(* Ingestion & sanitizer                                                   *)

\* row[key]; undefined when the row has no such key
Get(row, key) == IF key \in DOMAIN row THEN row[key] ELSE Undef

PercentColumns == {"Referral Fee &", "AMZ In Stock %"}

SanitizeNumber_NoStrip(col, v) ==
    WithValue(ParseFloatStr(ToStr(OrElse(v, Str(<<>>)))), LAMBDA parsed :
        IF IsNaN(parsed) THEN IntV(0) ELSE parsed)

\* parseFloat(String(v || '').replace(/[^0-9.]/g, '')), NaN read as 0, and the
\* percentage standardisation of the two percent columns
SanitizeNumber(col, v) ==
    WithValue(ParseFloatStr(KeepChars(ToStr(OrElse(v, Str(<<>>))), IsNumChar)), LAMBDA parsed :
    WithValue(IF IsNaN(parsed) THEN IntV(0) ELSE parsed, LAMBDA val :
        IF col \in PercentColumns /\ NGt(val, IntV(1)) THEN NDiv(val, IntV(100)) ELSE val))

NumericColumnSet == Range(NumericColumns)

\* the body of the loop of mapAndSanitize for one row
SanitizeRow(row, mapping) ==
    WithValue(MkItem(("COST" :> IntV(0)) @@ ("MSRP" :> IntV(0))), LAMBDA item0 :
    WithValue([f \in DOMAIN item0 |->
                  IF f \in DOMAIN mapping THEN Get(row, mapping[f]) ELSE item0[f]],
              LAMBDA item1 :
    WithValue(IF Truthy(item1["Imported by Code"])
              THEN [item1 EXCEPT !["Imported by Code"] =
                                    Str(cleanProductCode(item1["Imported by Code"]))]
              ELSE item1,
              LAMBDA item2 :
        [f \in DOMAIN item2 |->
            IF f \in NumericColumnSet THEN SanitizeNumber(f, item2[f]) ELSE item2[f]])))

mapAndSanitize(data, mapping) == [i \in DOMAIN data |-> SanitizeRow(data[i], mapping)]

-----------------------------------------------------------------------------
(* Merge & enrichment                                                      *)

\* processData step 2: the scan with seenAsins / uniqueProcessed
RECURSIVE RemoveDuplicatesScan(_, _, _)
RemoveDuplicatesScan(items, seenAsins, uniqueProcessed) ==
    IF items = <<>> THEN uniqueProcessed
    ELSE LET item == Head(items)
         IN  IF Truthy(item["ASIN"]) /\ item["ASIN"] \in seenAsins
             THEN RemoveDuplicatesScan(Tail(items), seenAsins, uniqueProcessed)
             ELSE RemoveDuplicatesScan(Tail(items),
                      IF Truthy(item["ASIN"]) THEN seenAsins \cup {item["ASIN"]}
                      ELSE seenAsins,
                      Append(uniqueProcessed, item))

RemoveDuplicates_KeepsLast(items) ==
    SelectSeq([i \in DOMAIN items |-> [item |-> items[i], i |-> i]],
              LAMBDA e : ~Truthy(e.item["ASIN"])
                         \/ \A j \in DOMAIN items :
                               j > e.i => items[j]["ASIN"] # e.item["ASIN"])

RemoveDuplicates(items) == RemoveDuplicatesScan(items, {}, <<>>)

\* processData step 3
IsValidRow(row) ==
    Truthy(row["Brand"]) \/ Truthy(row["Parent"]) \/ Truthy(row["ASIN"]) \/ Truthy(row["Title"])

RemoveInvalid(items) == SelectSeq(items, IsValidRow)

\* parseFloat(String(v || '0').replace(/[^0-9.]/g, '')) || 0
CostNumber(v) ==
    OrElse(ParseFloatStr(KeepChars(ToStr(OrElse(v, Str(<<"0">>))), IsNumChar)), IntV(0))

\* the item key a column header spells; pass-through columns whose header spells
\* no key of the model's records are not carried
SpellsKey(h) == \E f \in DOMAIN KeyChars : KeyChars[f] = h
KeyOf(h) == CHOOSE f \in DOMAIN KeyChars : KeyChars[f] = h

\* the cost file is absent (undefined), or its headers and rows
NoData == [headers |-> <<>>, rows |-> <<>>, absent |-> TRUE]
Sheet(headers, rows) == [headers |-> headers, rows |-> rows, absent |-> FALSE]

\* mapping[std] || fallback
MappedOr(mapping, std, fallback) ==
    IF std \in DOMAIN mapping /\ mapping[std] # <<>> THEN mapping[std] ELSE fallback

\* the entry { c, m, extras } of one cost row, and whether the row is indexed
CostEntry(row, costKey, msrpKey, extraKeys) ==
    [c      |-> CostNumber(Get(row, costKey)),
     m      |-> CostNumber(Get(row, msrpKey)),
     extras |-> [k \in {extraKeys[i] : i \in {j \in DOMAIN extraKeys :
                            /\ ~IsUndef(Get(row, extraKeys[j]))
                            /\ Get(row, extraKeys[j]) # Str(<<>>)}} |-> row[k]]]

\* costData.forEach: the Map from cleaned code to entry, later rows overwriting
RECURSIVE BuildCostMap(_, _, _, _, _, _)
BuildCostMap(rows, costKey, msrpKey, upcKey, extraKeys, costMap) ==
    IF rows = <<>> THEN costMap
    ELSE WithValue(CostEntry(Head(rows), costKey, msrpKey, extraKeys), LAMBDA entry :
         WithValue(cleanProductCode(Get(Head(rows), upcKey)), LAMBDA exactCode :
         WithValue(IF /\ ~(entry.c = IntV(0) /\ entry.m = IntV(0) /\ DOMAIN entry.extras = {})
                      /\ Truthy(Get(Head(rows), upcKey))
                      /\ exactCode # <<>>
                   THEN (exactCode :> entry) @@ costMap
                   ELSE costMap,
                   LAMBDA cm : BuildCostMap(Tail(rows), costKey, msrpKey, upcKey,
                                            extraKeys, cm))))

\* Object.assign(item, match.extras)
AssignExtras(item, extras) ==
    [f \in DOMAIN item |->
        IF \E k \in DOMAIN extras : SpellsKey(k) /\ KeyOf(k) = f
        THEN extras[KeyChars[f]]
        ELSE item[f]]

\* the miss branch: the record's own COST plus the per-unit charges
UnmatchedCost(item, shipping, misc) ==
    NAdd(NAdd(OrElse(ParseFloat(item["COST"]), IntV(0)), shipping), misc)

\* the body of the merge loop of integrateCosts for one item
MergeCost(item, costMap, shipping, misc, anyCostRows) ==
    WithValue(OrElse(item["Imported by Code"], Str(<<>>)), LAMBDA itemUpc :
        IF Truthy(itemUpc) /\ IsStr(itemUpc) /\ itemUpc.s \in DOMAIN costMap
        THEN WithValue(costMap[itemUpc.s], LAMBDA match :
                 [AssignExtras([item EXCEPT
                                   !["COST"] = NAdd(NAdd(match.c, shipping), misc),
                                   !["MSRP"] = match.m],
                               match.extras)
                     EXCEPT !["_styles"] = @ \ {"COST"}])
        ELSE [item EXCEPT !["COST"] = UnmatchedCost(item, shipping, misc),
                          !["_styles"] = IF anyCostRows THEN @ \cup {"COST"} ELSE @])

\* (mutant of integrateCosts: the manifest lists every header of the cost file)
integrateCosts_AllHeaders(items, costData, mapping, shipping, misc) ==
    IF costData.absent
    THEN [processed |-> [i \in DOMAIN items |->
                            [items[i] EXCEPT !["COST"] =
                                UnmatchedCost(items[i], shipping, misc)]],
          extraCols |-> <<>>]
    ELSE WithValue(MappedOr(mapping, "COST", KeyChars["COST"]), LAMBDA costKey :
         WithValue(MappedOr(mapping, "MSRP", KeyChars["MSRP"]), LAMBDA msrpKey :
         WithValue(MappedOr(mapping, "Imported by Code", KeyChars["Imported by Code"]),
                   LAMBDA costFileUpcKey :
         WithValue(SelectSeq(IF costData.rows = <<>> THEN <<>> ELSE costData.headers,
                             LAMBDA h : h \notin {costKey, msrpKey, costFileUpcKey}),
                   LAMBDA extraKeys :
         WithValue(BuildCostMap(costData.rows, costKey, msrpKey, costFileUpcKey,
                                extraKeys, <<>>),
                   LAMBDA costMap :
             [processed |-> [i \in DOMAIN items |->
                               MergeCost(items[i], costMap, shipping, misc,
                                         Len(costData.rows) > 0)],
              extraCols |-> IF costData.rows = <<>> THEN <<>>
                            ELSE costData.headers])))))

\* returns the enriched records and the extra (pass-through) column names
integrateCosts(items, costData, mapping, shipping, misc) ==
    IF costData.absent
    THEN [processed |-> [i \in DOMAIN items |->
                            [items[i] EXCEPT !["COST"] =
                                UnmatchedCost(items[i], shipping, misc)]],
          extraCols |-> <<>>]
    ELSE WithValue(MappedOr(mapping, "COST", KeyChars["COST"]), LAMBDA costKey :
         WithValue(MappedOr(mapping, "MSRP", KeyChars["MSRP"]), LAMBDA msrpKey :
         WithValue(MappedOr(mapping, "Imported by Code", KeyChars["Imported by Code"]),
                   LAMBDA costFileUpcKey :
         WithValue(SelectSeq(IF costData.rows = <<>> THEN <<>> ELSE costData.headers,
                             LAMBDA h : h \notin {costKey, msrpKey, costFileUpcKey}),
                   LAMBDA extraKeys :
         WithValue(BuildCostMap(costData.rows, costKey, msrpKey, costFileUpcKey,
                                extraKeys, <<>>),
                   LAMBDA costMap :
             [processed |-> [i \in DOMAIN items |->
                               MergeCost(items[i], costMap, shipping, misc,
                                         Len(costData.rows) > 0)],
              extraCols |-> extraKeys])))))

\* parseFloat(String(v || '0').replace(/[^0-9.]/g, '')) || 0 of a mapped stock
\* column; 0 when the column is not mapped
StockNumber(row, mapping, std) ==
    IF std \in DOMAIN mapping /\ mapping[std] # <<>>
    THEN CostNumber(Get(row, mapping[std]))
    ELSE IntV(0)

RECURSIVE BuildStockMap(_, _, _, _)
BuildStockMap(rows, mapping, upcKey, stockMap) ==
    IF rows = <<>> THEN stockMap
    ELSE WithValue(normalizeCode(OrElse(Get(Head(rows), upcKey), Str(<<>>))), LAMBDA upc :
         WithValue(IF Truthy(upc)
                   THEN (upc.s :> [s     |-> StockNumber(Head(rows), mapping, "In Stock"),
                                   sales |-> StockNumber(Head(rows), mapping, "Sales")])
                        @@ stockMap
                   ELSE stockMap,
                   LAMBDA sm : BuildStockMap(Tail(rows), mapping, upcKey, sm)))

MergeStock(item, stockMap) ==
    WithValue(normalizeCode(OrElse(item["Imported by Code"],
                                   OrElse(item["ASIN"], Str(<<>>)))),
              LAMBDA upc :
        IF Truthy(upc) /\ upc.s \in DOMAIN stockMap
        THEN [item EXCEPT !["In Stock"] = stockMap[upc.s].s,
                          !["Sales"]    = stockMap[upc.s].sales]
        ELSE item)

integrateInStockSales(items, data, mapping) ==
    WithValue(BuildStockMap(data.rows, mapping,
                            MappedOr(mapping, "Imported by Code",
                                     MappedOr(mapping, "ASIN", <<"U", "P", "C">>)),
                            <<>>),
              LAMBDA stockMap : [i \in DOMAIN items |-> MergeStock(items[i], stockMap)])

-----------------------------------------------------------------------------
(* Profitability calculator                                                *)

BuyBoxColumns == <<"Buy Box", "Buy Box 30", "Buy Box 90", "Buy Box 180">>

\* (mutant of getBuyBoxWaterfallPrice: val >= 0 instead of val > 0)
getBuyBoxWaterfallPrice_NonNegative(row) ==
    LET hits == {i \in DOMAIN BuyBoxColumns :
                    NGe(ParseFloat(row[BuyBoxColumns[i]]), IntV(0))}
    IN  IF hits = {} THEN Undef
        ELSE ParseFloat(row[BuyBoxColumns[CHOOSE i \in hits : \A j \in hits : i <= j]])

\* null (no price) is Undef
getBuyBoxWaterfallPrice(row) ==
    LET hits == {i \in DOMAIN BuyBoxColumns :
                    NGt(ParseFloat(row[BuyBoxColumns[i]]), IntV(0))}
    IN  IF hits = {} THEN Undef
        ELSE ParseFloat(row[BuyBoxColumns[CHOOSE i \in hits : \A j \in hits : i <= j]])

getSalePrice(row) ==
    WithValue(getBuyBoxWaterfallPrice(row), LAMBDA bb :
        IF Truthy(bb) THEN bb
        ELSE WithValue(ParseFloat(row["MSRP"]), LAMBDA msrp :
                 IF NGt(msrp, IntV(0)) THEN msrp ELSE Undef))

calculateProfit(row) ==
    WithValue(getSalePrice(row), LAMBDA price :
    WithValue(JsAdd(OrElse(row["COST"], IntV(0)), OrElse(row["Pick & Pack"], IntV(0))),
              LAMBDA cost :
        IF ~Truthy(price) THEN NNeg(ToNumber(cost))
        ELSE JsSub(JsMul(price, JsSub(IntV(1), OrElse(row["Referral Fee &"], Num(15, 100)))),
                   cost)))

calculateROI(profit, cost) ==
    IF StrictEq(cost, IntV(0)) THEN IntV(0)
    ELSE JsMul(JsDiv(profit, cost), IntV(100))

\* type = "buybox" | "msrp"
calculateMargin(row, type, bbPriceUsed) ==
    WithValue(OrElse(ParseFloat(row["MSRP"]), IntV(0)), LAMBDA msrp :
    WithValue(IF type = "buybox" THEN bbPriceUsed ELSE msrp, LAMBDA price :
        IF type = "buybox" /\ ~Truthy(bbPriceUsed)
        THEN Str(<<"N", "o", " ", "B", "u", "y", "b", "o", "x">>)
        ELSE IF type # "buybox" /\ JsLe(msrp, IntV(0)) THEN Str(<<"N", "/", "A">>)
        ELSE JsMul(JsDiv(JsSub(JsMul(price,
                                     JsSub(IntV(1),
                                           OrElse(row["Referral Fee &"], Num(15, 100)))),
                               JsAdd(OrElse(row["COST"], IntV(0)),
                                     OrElse(row["Pick & Pack"], IntV(0)))),
                         price),
                   IntV(100))))

calculateMSRPDifference(msrp, bbPrice) ==
    IF JsLe(msrp, IntV(0)) THEN Str(<<"N", "/", "A">>)
    ELSE IF ~Truthy(bbPrice) THEN Str(<<"N", "o", " ", "B", "u", "y", "b", "o", "x">>)
    ELSE JsSub(bbPrice, msrp)

-----------------------------------------------------------------------------
(* Grouping & variant intelligence                                         *)

\* primary collation order of localeCompare: space and punctuation, then digits,
\* then letters (case ignored at this level)
CollationChars ==
    <<" ", "_", "-", ",", ";", ":", "!", "?", ".", "'", "(", ")", "@", "*", "/",
      "&", "#", "%", "+", "|", "$">> \o DigitChars \o LowerChars

WeightOf == [c \in Range(CollationChars) |-> IndexIn(c, CollationChars)]

Weight(c) ==
    LET l == LowerChar(c)
    IN  IF l \in DOMAIN WeightOf THEN WeightOf[l] ELSE 0

\* lexicographic comparison of two equally typed weight sequences: -1, 0 or 1
RECURSIVE CompareSeq(_, _)
CompareSeq(a, b) ==
    IF a = <<>> /\ b = <<>> THEN 0
    ELSE IF a = <<>> THEN -1
    ELSE IF b = <<>> THEN 1
    ELSE IF Head(a) < Head(b) THEN -1
    ELSE IF Head(a) > Head(b) THEN 1
    ELSE CompareSeq(Tail(a), Tail(b))

\* a.localeCompare(b): letters and digits first, lower case before upper case
\* to break a tie
localeCompare(a, b) ==
    LET primary == CompareSeq([i \in DOMAIN a |-> Weight(a[i])],
                              [i \in DOMAIN b |-> Weight(b[i])])
    IN  IF primary # 0 THEN primary
        ELSE CompareSeq([i \in DOMAIN a |-> IF IsUpper(a[i]) THEN 1 ELSE 0],
                        [i \in DOMAIN b |-> IF IsUpper(b[i]) THEN 1 ELSE 0])

\* the comparator of processData step 6
CompareForGrouping(a, b) ==
    LET parentA == ToStr(OrElse(a["Parent"], Str(<<>>)))
        parentB == ToStr(OrElse(b["Parent"], Str(<<>>)))
    IN  IF parentA # parentB THEN localeCompare(parentA, parentB)
        ELSE localeCompare(ToStr(OrElse(a["Color"], Str(<<>>))),
                           ToStr(OrElse(b["Color"], Str(<<>>))))

\* Array.prototype.sort is stable: x goes after every element that is not greater
RECURSIVE InsertForGrouping(_, _)
InsertForGrouping(sorted, x) ==
    IF sorted = <<>> THEN <<x>>
    ELSE IF CompareForGrouping(x, Head(sorted)) < 0 THEN <<x>> \o sorted
    ELSE <<Head(sorted)>> \o InsertForGrouping(Tail(sorted), x)

RECURSIVE SortForGrouping(_)
SortForGrouping(items) ==
    IF items = <<>> THEN <<>>
    ELSE InsertForGrouping(SortForGrouping(SubSeq(items, 1, Len(items) - 1)),
                           items[Len(items)])

ChildRatings(r) == OrElse(r["Rating Count - Child"], IntV(0))

RECURSIVE MaxRatings(_, _)
MaxRatings(group, maxRatings) ==
    IF group = <<>> THEN maxRatings
    ELSE MaxRatings(Tail(group),
                    IF JsGt(ChildRatings(Head(group)), maxRatings)
                    THEN ChildRatings(Head(group)) ELSE maxRatings)

RankOrLast(r) == OrElse(r["Sales Rank"], IntV(9999999))

\* (mutant of BestIndex: the winners are not sorted by Sales Rank)
BestIndex_FirstWinner(group) ==
    WithValue(MaxRatings(group, IntV(0)), LAMBDA maxRatings :
    WithValue({i \in DOMAIN group :
                  /\ StrictEq(ChildRatings(group[i]), maxRatings)
                  /\ JsGt(maxRatings, IntV(0))},
              LAMBDA winners :
        IF winners = {} THEN 0
        ELSE CHOOSE i \in winners : \A j \in winners : i <= j))

\* the position in the group of winners.sort(...)[0]; 0 when there is no winner
BestIndex(group) ==
    WithValue(MaxRatings(group, IntV(0)), LAMBDA maxRatings :
    WithValue({i \in DOMAIN group :
                  /\ StrictEq(ChildRatings(group[i]), maxRatings)
                  /\ JsGt(maxRatings, IntV(0))},
              LAMBDA winners :
        IF winners = {} THEN 0
        ELSE CHOOSE i \in winners : \A j \in winners :
                 /\ ~JsLt(RankOrLast(group[j]), RankOrLast(group[i]))
                 /\ (j < i => JsLt(RankOrLast(group[i]), RankOrLast(group[j])))))

\* the body of the item loop of processGroup
ProcessItem(item, isBest) ==
    WithValue(IF ~Truthy(item["Pick & Pack"]) \/ StrictEq(item["Pick & Pack"], IntV(0))
              THEN [item EXCEPT !["Pick & Pack"] = IntV(7),
                                !["_styles"] = @ \cup {"Pick & Pack"}]
              ELSE item,
              LAMBDA i1 :
    WithValue(IF ~Truthy(i1["Referral Fee &"]) \/ StrictEq(i1["Referral Fee &"], IntV(0))
              THEN [i1 EXCEPT !["Referral Fee &"] = Num(15, 100),
                              !["_styles"] = @ \cup {"Referral Fee &"}]
              ELSE i1,
              LAMBDA i2 :
    WithValue(IF isBest
              THEN [i2 EXCEPT !["_isBestVariant"] = Bool(TRUE),
                              !["_styles"] = @ \cup {"Color"}]
              ELSE i2,
              LAMBDA i3 :
    WithValue(getBuyBoxWaterfallPrice(i3), LAMBDA bbPriceUsed :
    WithValue([i3 EXCEPT !["Price Used For BB Profit"] =
                  IF Truthy(bbPriceUsed) THEN Str(ToFixed2(bbPriceUsed))
                  ELSE Str(<<"N", "o", " ", "B", "u", "y", "b", "o", "x">>)],
              LAMBDA i4 :
    WithValue(calculateProfit(i4), LAMBDA profit :
    WithValue(OrElse(bbPriceUsed, IntV(0)), LAMBDA finalPrice :
    WithValue(OrElse(i4["COST"], IntV(0)), LAMBDA finalCost :
        [i4 EXCEPT
            !["Profit"] = profit,
            !["ROI"] = calculateROI(profit, OrElse(i4["COST"], IntV(0))),
            !["Profit Margin (Buybox)"] = calculateMargin(i4, "buybox", bbPriceUsed),
            !["Profit Margin (MSRP)"] = calculateMargin(i4, "msrp", Undef),
            !["MSRP Difference"] =
                calculateMSRPDifference(OrElse(ParseFloat(i4["MSRP"]), IntV(0)),
                                        bbPriceUsed),
            !["Margin Div"] =
                IF JsGt(finalCost, IntV(0)) /\ JsGt(finalPrice, IntV(0))
                THEN JsMul(JsDiv(finalPrice, finalCost), IntV(100))
                ELSE IntV(0)]))))))))

processGroup(group) ==
    LET best == BestIndex(group)
    IN  [i \in DOMAIN group |-> ProcessItem(group[i], i = best)]

ParentOrUnassigned(item) == OrElse(item["Parent"], Str(<<"u", "n", "a", "s", "s", "i", "g", "n", "e", "d">>))

\* the linear scan: a group ends at the last item and wherever the next parent differs
RECURSIVE ScanGroups(_, _, _)
ScanGroups(items, chunkStart, i) ==
    IF i > Len(items) THEN <<>>
    ELSE IF i = Len(items)
            \/ ParentOrUnassigned(items[i]) # ParentOrUnassigned(items[i + 1])
    THEN processGroup(SubSeq(items, chunkStart, i)) \o ScanGroups(items, i + 1, i + 1)
    ELSE ScanGroups(items, chunkStart, i + 1)

processBrainOptimized(items) == ScanGroups(items, 1, 1)

-----------------------------------------------------------------------------
(* Rating intelligence                                                     *)

MapGet(m, key) == IF key \in DOMAIN m THEN m[key] ELSE Undef

\* map.set(key, (map.get(key) || 0) + x)
MapAdd(m, key, x) == (key :> NAdd(OrElse(MapGet(m, key), IntV(0)), x)) @@ m

ParentOrUnknown(row) == OrElse(row["Parent"], Str(<<"U", "n", "k", "n", "o", "w", "n">>))
ColorOrUnknown(row)  == OrElse(row["Color"], Str(<<"U", "n", "k", "n", "o", "w", "n">>))
PcKey(row) == ToStr(ParentOrUnknown(row)) \o <<"|", "|", "|">> \o ToStr(ColorOrUnknown(row))
ColorStr(row) == Trim(ToStr(OrElse(row["Color"], Str(<<>>))))

\* typeof v === 'number' ? v : parseFloat(String(v || '0')) || 0
RatingNumber(v) ==
    IF v.k \in {"num", "nan", "inf"} THEN v
    ELSE OrElse(ParseFloatStr(ToStr(OrElse(v, Str(<<"0">>)))), IntV(0))

\* Pass 1: the four aggregation maps
RECURSIVE AggregateRatings(_, _)
AggregateRatings(rows, acc) ==
    IF rows = <<>> THEN acc
    ELSE LET row    == Head(rows)
             parent == ParentOrUnknown(row)
             child  == RatingNumber(row["Rating Count - Child"])
             colors == IF parent \in DOMAIN acc.parentUniqueColors
                       THEN acc.parentUniqueColors[parent] ELSE {}
         IN  WithValue(
               [parentRatingTotals |->
                    IF Truthy(row["Parent"])
                    THEN MapAdd(acc.parentRatingTotals, parent,
                                RatingNumber(row["Rating Count"]))
                    ELSE acc.parentRatingTotals,
                parentColorTotals  |-> MapAdd(acc.parentColorTotals, PcKey(row), child),
                globalColorTotals  |-> MapAdd(acc.globalColorTotals, ColorOrUnknown(row), child),
                parentUniqueColors |->
                    IF ColorStr(row) # <<>> /\ Truthy(row["Parent"])
                    THEN (parent :> (colors \cup {ColorStr(row)})) @@ acc.parentUniqueColors
                    ELSE acc.parentUniqueColors],
               LAMBDA a : AggregateRatings(Tail(rows), a))

\* Intermediate: the largest colour total of each parent
RECURSIVE MaxPerParent(_, _, _)
MaxPerParent(rows, parentColorTotals, parentMaxRatings) ==
    IF rows = <<>> THEN parentMaxRatings
    ELSE LET row        == Head(rows)
             parent     == ParentOrUnknown(row)
             total      == OrElse(MapGet(parentColorTotals, PcKey(row)), IntV(0))
             currentMax == OrElse(MapGet(parentMaxRatings, parent), IntV(0))
         IN  WithValue(IF NGt(total, currentMax)
                       THEN (parent :> total) @@ parentMaxRatings
                       ELSE parentMaxRatings,
                       LAMBDA pm : MaxPerParent(Tail(rows), parentColorTotals, pm))

\* (mutant of AssignRatings: the test uniqueColorCount > 1 is missing)
AssignRatings_AnyColorCount(row, acc, parentMaxRatings) ==
    LET parent      == ParentOrUnknown(row)
        colorTotal0 == OrElse(MapGet(acc.parentColorTotals, PcKey(row)), IntV(0))
        colorTotal  == OrElse(colorTotal0, IntV(0))
        maxForParent == OrElse(MapGet(parentMaxRatings, parent), IntV(0))
    IN  [row EXCEPT
            !["Total Parent Ratings"] =
                IF Truthy(row["Parent"])
                THEN OrElse(MapGet(acc.parentRatingTotals, parent), IntV(0))
                ELSE RatingNumber(row["Rating Count"]),
            !["Total Color Ratings"] = colorTotal0,
            !["Global Color Popularity"] =
                OrElse(MapGet(acc.globalColorTotals, ColorOrUnknown(row)), IntV(0)),
            !["_isBestColor"] =
                Bool(/\ StrictEq(colorTotal, maxForParent)
                     /\ NGt(maxForParent, IntV(0))
                     /\ ColorStr(row) # <<>>)]

\* Pass 2: the assignment to one row
AssignRatings(row, acc, parentMaxRatings) ==
    LET parent      == ParentOrUnknown(row)
        colorTotal0 == OrElse(MapGet(acc.parentColorTotals, PcKey(row)), IntV(0))
        colorTotal  == OrElse(colorTotal0, IntV(0))
        maxForParent == OrElse(MapGet(parentMaxRatings, parent), IntV(0))
        uniqueColorCount == IF parent \in DOMAIN acc.parentUniqueColors
                            THEN Cardinality(acc.parentUniqueColors[parent]) ELSE 0
    IN  [row EXCEPT
            !["Total Parent Ratings"] =
                IF Truthy(row["Parent"])
                THEN OrElse(MapGet(acc.parentRatingTotals, parent), IntV(0))
                ELSE RatingNumber(row["Rating Count"]),
            !["Total Color Ratings"] = colorTotal0,
            !["Global Color Popularity"] =
                OrElse(MapGet(acc.globalColorTotals, ColorOrUnknown(row)), IntV(0)),
            !["_isBestColor"] =
                Bool(/\ StrictEq(colorTotal, maxForParent)
                     /\ NGt(maxForParent, IntV(0))
                     /\ uniqueColorCount > 1
                     /\ ColorStr(row) # <<>>)]

calculateRatingMetricsOptimized(data) ==
    WithValue(AggregateRatings(data, [parentRatingTotals |-> <<>>,
                                      parentColorTotals  |-> <<>>,
                                      globalColorTotals  |-> <<>>,
                                      parentUniqueColors |-> <<>>]),
        LAMBDA acc :
            WithValue(MaxPerParent(data, acc.parentColorTotals, <<>>),
                LAMBDA pm : [i \in DOMAIN data |-> AssignRatings(data[i], acc, pm)]))

-----------------------------------------------------------------------------
(* Order builder (generateOrder)                                           *)

sInStock   == <<"i", "n", " ", "s", "t", "o", "c", "k">>
sShippable == <<"s", "h", "i", "p", "p", "a", "b", "l", "e">>
sBought    == <<"b", "o", "u", "g", "h", "t">>
sMillion   == <<"1", "0", "0", "0", "0", "0", "0">>

\* (mutant of IsCandidate: the ROI and Profit exclusions are missing)
IsCandidate_NoProfitFilter(p) ==
    LET amzAvailability == ToLowerCase(ToStr(OrElse(p["Amazon Availability"], Str(<<>>))))
        amzInStock == Includes(amzAvailability, sInStock)
                      /\ Includes(amzAvailability, sShippable)
    IN  /\ ~amzInStock
        /\ ~JsLe(OrElse(p["COST"], IntV(0)), IntV(0))

\* (mutant of IsCandidate: the Amazon availability exclusion is missing)
IsCandidate_IgnoresAvailability(p) ==
    /\ ~JsLe(OrElse(p["ROI"], IntV(0)), IntV(0))
    /\ ~JsLe(OrElse(p["Profit"], IntV(0)), IntV(0))
    /\ ~JsLe(OrElse(p["COST"], IntV(0)), IntV(0))


\* 1. the filter of viable candidates
IsCandidate(p) ==
    LET amzAvailability == ToLowerCase(ToStr(OrElse(p["Amazon Availability"], Str(<<>>))))
        amzInStock == Includes(amzAvailability, sInStock)
                      /\ Includes(amzAvailability, sShippable)
    IN  /\ ~amzInStock
        /\ ~JsLe(OrElse(p["ROI"], IntV(0)), IntV(0))
        /\ ~JsLe(OrElse(p["Profit"], IntV(0)), IntV(0))
        /\ ~JsLe(OrElse(p["COST"], IntV(0)), IntV(0))

\* parseInt(String(v || dflt).replace(/[^0-9]/g, '')) || orElse
DigitsOf(v, dflt, orElse) ==
    OrElse(ParseIntStr(KeepChars(ToStr(OrElse(v, Str(dflt))), IsDigit)), orElse)

BadgeOf(p) == ToLowerCase(ToStr(OrElse(p["Sales Badge"], Str(<<>>))))
RankOf(p)  == DigitsOf(p["Sales Rank"], sMillion, IntV(1000000))

\* (mutant of Score: the badge is worth 1,000 points)
Score_SmallBadgeBonus(p) ==
    LET badge     == BadgeOf(p)
        hasBadge  == Includes(badge, sBought) \/ Len(badge) > 0
        rankScore == NMax(IntV(0), NDiv(NSub(IntV(500000), RankOf(p)), IntV(100)))
        reviews   == NAdd(DigitsOf(p["Rating Count"], <<"0">>, IntV(0)),
                          DigitsOf(p["Rating Count - Child"], <<"0">>, IntV(0)))
    IN  NAdd(NAdd(IF hasBadge THEN IntV(1000) ELSE IntV(0), rankScore),
             NDiv(NMin(reviews, IntV(1000)), IntV(10)))


\* 2. the score of a candidate
Score(p) ==
    LET badge     == BadgeOf(p)
        hasBadge  == Includes(badge, sBought) \/ Len(badge) > 0
        rankScore == NMax(IntV(0), NDiv(NSub(IntV(500000), RankOf(p)), IntV(100)))
        reviews   == NAdd(DigitsOf(p["Rating Count"], <<"0">>, IntV(0)),
                          DigitsOf(p["Rating Count - Child"], <<"0">>, IntV(0)))
    IN  NAdd(NAdd(IF hasBadge THEN IntV(10000) ELSE IntV(0), rankScore),
             NDiv(NMin(reviews, IntV(1000)), IntV(10)))

\* Array.prototype.sort((a, b) => b.score - a.score): stable, descending
RECURSIVE InsertByScore(_, _)
InsertByScore(sorted, x) ==
    IF sorted = <<>> THEN <<x>>
    ELSE IF NLt(Head(sorted).score, x.score) THEN <<x>> \o sorted
    ELSE <<Head(sorted)>> \o InsertByScore(Tail(sorted), x)

RECURSIVE SortByScore(_)
SortByScore(xs) ==
    IF xs = <<>> THEN <<>>
    ELSE InsertByScore(SortByScore(SubSeq(xs, 1, Len(xs) - 1)), xs[Len(xs)])

ScoredCandidates(ps) ==
    LET candidates == SelectSeq(ps, IsCandidate)
    IN  SortByScore([i \in DOMAIN candidates |->
                        [product |-> candidates[i], score |-> Score(candidates[i])]])

\* (mutant of MaxUnits: the rank threshold is applied to the Sales Rank cell as
\* it is, a rank of 0 included)
MaxUnits_RawRank(product) ==
    IF Len(BadgeOf(product)) > 0 THEN 8
    ELSE IF NLt(ToNumber(product["Sales Rank"]), IntV(100000)) THEN 4
    ELSE 2

\* the unit cap of a product
MaxUnits(product) ==
    IF Len(BadgeOf(product)) > 0 THEN 8
    ELSE IF NLt(RankOf(product), IntV(100000)) THEN 4
    ELSE 2

UnitCost(product) == OrElse(ToNumber(product["COST"]), IntV(0))

OrderItem(product, units, totalCost, estProfit) ==
    [f \in DOMAIN product \cup {"Units", "TotalCost", "EstProfit"} |->
        CASE f = "Units"     -> units
          [] f = "TotalCost" -> totalCost
          [] f = "EstProfit" -> estProfit
          [] OTHER           -> product[f]]

\* (mutant of LoopBody: the operands of the affordability division are swapped)
LoopBody_SwappedDivision(st, product, b) ==
    LET cost            == UnitCost(product)
        remainingBudget == NSub(b, st.spend)
        affordableUnits == NFloor(NDiv(cost, remainingBudget))
        unitsToOrder    == NMin(IntV(MaxUnits(product)), affordableUnits)
        totalItemCost   == NMul(unitsToOrder, cost)
        totalItemProfit == NMul(unitsToOrder, OrElse(ToNumber(product["Profit"]), IntV(0)))
    IN  IF NGe(st.spend, b) THEN [st EXCEPT !.brk = TRUE]
        ELSE IF NLe(cost, IntV(0)) THEN st
        ELSE IF NGt(NAdd(st.spend, cost), b) THEN st
        ELSE IF NGt(unitsToOrder, IntV(0))
             THEN [items |-> Append(st.items,
                               OrderItem(product, unitsToOrder, totalItemCost, totalItemProfit)),
                   spend |-> NAdd(st.spend, totalItemCost),
                   brk   |-> FALSE]
        ELSE st

\* (mutant of LoopBody: buys the unit cap without looking at the budget left)
LoopBody_IgnoresBudget(st, product, b) ==
    LET cost          == UnitCost(product)
        unitsToOrder  == IntV(MaxUnits(product))
        totalItemCost == NMul(unitsToOrder, cost)
    IN  IF NGe(st.spend, b) THEN [st EXCEPT !.brk = TRUE]
        ELSE IF NLe(cost, IntV(0)) THEN st
        ELSE [items |-> Append(st.items,
                          OrderItem(product, unitsToOrder, totalItemCost,
                                    NMul(unitsToOrder, OrElse(ToNumber(product["Profit"]), IntV(0))))),
              spend |-> NAdd(st.spend, totalItemCost),
              brk   |-> FALSE]

\* (mutant of LoopBody: one unit of each affordable candidate)
LoopBody_SingleUnit(st, product, b) ==
    LET cost            == UnitCost(product)
        unitsToOrder    == IntV(1)
        totalItemCost   == NMul(unitsToOrder, cost)
        totalItemProfit == NMul(unitsToOrder, OrElse(ToNumber(product["Profit"]), IntV(0)))
    IN  IF NGe(st.spend, b) THEN [st EXCEPT !.brk = TRUE]
        ELSE IF NLe(cost, IntV(0)) THEN st
        ELSE IF NGt(NAdd(st.spend, cost), b) THEN st
        ELSE [items |-> Append(st.items,
                          OrderItem(product, unitsToOrder, totalItemCost, totalItemProfit)),
              spend |-> NAdd(st.spend, totalItemCost),
              brk   |-> FALSE]


\* 3. one iteration of the allocation loop on st = [items, spend, brk]
LoopBody(st, product, b) ==
    LET cost            == UnitCost(product)
        remainingBudget == NSub(b, st.spend)
        affordableUnits == NFloor(NDiv(remainingBudget, cost))
        unitsToOrder    == NMin(IntV(MaxUnits(product)), affordableUnits)
        totalItemCost   == NMul(unitsToOrder, cost)
        totalItemProfit == NMul(unitsToOrder, OrElse(ToNumber(product["Profit"]), IntV(0)))
    IN  IF NGe(st.spend, b) THEN [st EXCEPT !.brk = TRUE]
        ELSE IF NLe(cost, IntV(0)) THEN st
        ELSE IF NGt(NAdd(st.spend, cost), b) THEN st
        ELSE IF NGt(unitsToOrder, IntV(0))
             THEN [items |-> Append(st.items,
                               OrderItem(product, unitsToOrder, totalItemCost, totalItemProfit)),
                   spend |-> NAdd(st.spend, totalItemCost),
                   brk   |-> FALSE]
        ELSE st

RECURSIVE Walk(_, _, _)
Walk(st, cs, b) ==
    IF cs = <<>> \/ st.brk THEN st
    ELSE Walk(LoopBody(st, Head(cs).product, b), Tail(cs), b)

generateOrder(ps, b) ==
    Walk([items |-> <<>>, spend |-> IntV(0), brk |-> FALSE], ScoredCandidates(ps), b).items

-----------------------------------------------------------------------------
(* generateOrder as a run: one action per step of the function             *)

MaxProducts == 3
MaxBudget   == 8

sBadge50   == <<"5", "0", "+", " ", "b", "o", "u", "g", "h", "t">>
sAmzOnly   == <<"I", "n", " ", "S", "t", "o", "c", "k">>
sAmzStock  == <<"I", "n", " ", "S", "t", "o", "c", "k", ".", " ",
                "S", "h", "i", "p", "p", "a", "b", "l", "e">>

\* a computed record as processData returns it, reduced to what generateOrder reads
OrderProduct(cost, profit, badge, rank, ratings, availability) ==
    [COST |-> cost, Profit |-> profit, ROI |-> calculateROI(profit, cost)]
    @@ ("Sales Badge" :> Str(badge)) @@ ("Sales Rank" :> rank)
    @@ ("Rating Count" :> ratings) @@ ("Rating Count - Child" :> IntV(0))
    @@ ("Amazon Availability" :> Str(availability))

ProductCatalog ==
    { OrderProduct(IntV(5),   IntV(2),   sBadge50, IntV(500),    IntV(40),   <<>>),
      OrderProduct(IntV(1),   IntV(1),   sBadge50, IntV(900000), IntV(0),    <<>>),
      OrderProduct(IntV(2),   IntV(2),   <<>>,     IntV(150000), IntV(10),   sAmzOnly),
      OrderProduct(Num(5, 2), IntV(1),   <<>>,     IntV(1),      IntV(2500), <<>>),
      OrderProduct(IntV(2),   Num(1, 2), <<>>,     IntV(0),      IntV(2500), <<>>),
      OrderProduct(IntV(2),   IntV(-1),  sBadge50, IntV(900),    IntV(5),    <<>>),
      OrderProduct(IntV(3),   IntV(3),   <<>>,     IntV(700),    IntV(5),    sAmzStock) }

SeqsUpTo(S, n) == UNION {[1..k -> S] : k \in 0..n}

OrderIdle ==
    /\ products = <<>>
    /\ budget = IntV(0)
    /\ opc = "idle"
    /\ cands = <<>>
    /\ pos = 0
    /\ orderItems = <<>>
    /\ currentSpend = IntV(0)

CallIdle ==
    /\ fn = "none"
    /\ args = <<>>
    /\ ret = <<>>

PipeIdle ==
    /\ inp = <<>>
    /\ pc = "idle"
    /\ mergedMainData = <<>>
    /\ processed = <<>>
    /\ mapped = <<>>
    /\ extraCols = <<>>

\* exportToExcel calls generateOrder only with orderBudget > 0
OrderInit ==
    /\ products \in SeqsUpTo(ProductCatalog, MaxProducts)
    /\ budget \in {IntV(b) : b \in 1..MaxBudget}
    /\ opc = "start"
    /\ cands = <<>>
    /\ pos = 0
    /\ orderItems = <<>>
    /\ currentSpend = IntV(0)
    /\ PipeIdle
    /\ CallIdle

\* steps 1 and 2: filter, score, sort
OrderBegin ==
    /\ opc = "start"
    /\ cands' = ScoredCandidates(products)
    /\ pos' = 1
    /\ opc' = "walk"
    /\ UNCHANGED <<products, budget, orderItems, currentSpend>>

\* step 3: one iteration of "for (const { product } of scoredCandidates)"
OrderStep ==
    /\ opc = "walk"
    /\ pos <= Len(cands)
    /\ LET st == LoopBody([items |-> orderItems, spend |-> currentSpend, brk |-> FALSE],
                          cands[pos].product, budget)
       IN  /\ orderItems' = st.items
           /\ currentSpend' = st.spend
           /\ opc' = IF st.brk THEN "done" ELSE "walk"
           /\ pos' = IF st.brk THEN pos ELSE pos + 1
    /\ UNCHANGED <<products, budget, cands>>

\* the loop ran out of candidates: return orderItems
OrderReturn ==
    /\ opc = "walk"
    /\ pos > Len(cands)
    /\ opc' = "done"
    /\ UNCHANGED <<products, budget, cands, pos, orderItems, currentSpend>>


OrderNext ==
    \/ OrderBegin /\ UNCHANGED <<pipeVars, callVars>>
    \/ OrderStep /\ UNCHANGED <<pipeVars, callVars>>
    \/ OrderReturn /\ UNCHANGED <<pipeVars, callVars>>

OrderSpec == OrderInit /\ [][OrderNext]_vars

-----------------------------------------------------------------------------
(* The inputs of a run: what parseExcel returns for the uploaded sheets    *)
(* (every cell is the formatted text of the cell, "" when blank)           *)

ScenarioHeaders ==
    << <<"A", "S", "I", "N">>,
       <<"P", "a", "r", "e", "n", "t">>,
       <<"B", "r", "a", "n", "d">>,
       <<"T", "i", "t", "l", "e">>,
       <<"C", "o", "l", "o", "r">>,
       <<"S", "a", "l", "e", "s", " ", "R", "a", "n", "k">>,
       <<"B", "u", "y", " ", "B", "o", "x">> >>

ScenarioUpcHeaders ==
    << <<"A", "S", "I", "N">>,
       <<"P", "a", "r", "e", "n", "t">>,
       <<"B", "r", "a", "n", "d">>,
       <<"T", "i", "t", "l", "e">>,
       <<"C", "o", "l", "o", "r">>,
       <<"S", "a", "l", "e", "s", " ", "R", "a", "n", "k">>,
       <<"B", "u", "y", " ", "B", "o", "x">>,
       <<"U", "P", "C">> >>

KeepaHeaders ==
    << <<"A", "S", "I", "N">>,
       <<"P", "a", "r", "e", "n", "t", " ", "A", "S", "I", "N">>,
       <<"B", "r", "a", "n", "d">>,
       <<"T", "i", "t", "l", "e">>,
       <<"C", "o", "l", "o", "r">>,
       <<"U", "P", "C">>,
       <<"B", "u", "y", " ", "B", "o", "x">>,
       <<"B", "u", "y", " ", "B", "o", "x", " ", "9", "0">>,
       <<"R", "e", "f", "e", "r", "r", "a", "l", " ", "F", "e", "e", " ", "%">>,
       <<"F", "B", "A", " ", "P", "i", "c", "k", "&", "P", "a", "c", "k", " ", "F", "e", "e">>,
       <<"R", "a", "t", "i", "n", "g", " ", "C", "o", "u", "n", "t", " ", "-", " ", "C", "h", "i", "l", "d">>,
       <<"R", "a", "t", "i", "n", "g", " ", "C", "o", "u", "n", "t">> >>

CostHeaders ==
    << <<"U", "P", "C">>,
       <<"C", "o", "s", "t">>,
       <<"M", "S", "R", "P">> >>

SupplierHeaders ==
    << <<"U", "P", "C">>,
       <<"W", "h", "o", "l", "e", "s", "a", "l", "e", " ", "P", "r", "i", "c", "e">>,
       <<"M", "S", "R", "P">>,
       <<"C", "O", "S", "T">>,
       <<"A", "S", "I", "N">>,
       <<"N", "o", "t", "e", "s">> >>

StockHeaders ==
    << <<"U", "P", "C">>,
       <<"I", "n", " ", "S", "t", "o", "c", "k">>,
       <<"S", "a", "l", "e", "s">> >>

\* the main file of the end-to-end scenario
MainScenario ==
    Sheet(ScenarioHeaders,
      << ((<<"A", "S", "I", "N">> :> Str(<<"A", "1">>)) @@ (<<"P", "a", "r", "e", "n", "t">> :> Str(<<"P", "1">>)) @@ (<<"B", "r", "a", "n", "d">> :> Str(<<"X">>)) @@ (<<"T", "i", "t", "l", "e">> :> Str(<<"T", "1">>)) @@ (<<"C", "o", "l", "o", "r">> :> Str(<<"R", "e", "d">>)) @@ (<<"S", "a", "l", "e", "s", " ", "R", "a", "n", "k">> :> Str(<<"5", "0", ",", "0", "0", "0">>)) @@ (<<"B", "u", "y", " ", "B", "o", "x">> :> Str(<<"$", "1", "0", ".", "0", "0">>))) >>)

\* the same row in a file that also carries the product code
MainScenarioUpc ==
    Sheet(ScenarioUpcHeaders,
      << ((<<"A", "S", "I", "N">> :> Str(<<"A", "1">>)) @@ (<<"P", "a", "r", "e", "n", "t">> :> Str(<<"P", "1">>)) @@ (<<"B", "r", "a", "n", "d">> :> Str(<<"X">>)) @@ (<<"T", "i", "t", "l", "e">> :> Str(<<"T", "1">>)) @@ (<<"C", "o", "l", "o", "r">> :> Str(<<"R", "e", "d">>)) @@ (<<"S", "a", "l", "e", "s", " ", "R", "a", "n", "k">> :> Str(<<"5", "0", ",", "0", "0", "0">>)) @@ (<<"B", "u", "y", " ", "B", "o", "x">> :> Str(<<"$", "1", "0", ".", "0", "0">>)) @@ (<<"U", "P", "C">> :> Str(<<"A", "1">>))) >>)

\* a variant without Buy Box, and a second listing of A1 with a 150 percent fee cell
MainVariants ==
    Sheet(KeepaHeaders,
      << ((<<"A", "S", "I", "N">> :> Str(<<"A", "2">>)) @@ (<<"P", "a", "r", "e", "n", "t", " ", "A", "S", "I", "N">> :> Str(<<"P", "1">>)) @@ (<<"B", "r", "a", "n", "d">> :> Str(<<"X">>)) @@ (<<"T", "i", "t", "l", "e">> :> Str(<<"T", "2">>)) @@ (<<"C", "o", "l", "o", "r">> :> Str(<<"B", "l", "u", "e">>)) @@ (<<"U", "P", "C">> :> Str(<<"U", "2", ".", "0">>)) @@ (<<"B", "u", "y", " ", "B", "o", "x">> :> Str(<<>>)) @@ (<<"B", "u", "y", " ", "B", "o", "x", " ", "9", "0">> :> Str(<<>>)) @@ (<<"R", "e", "f", "e", "r", "r", "a", "l", " ", "F", "e", "e", " ", "%">> :> Str(<<"1", "5">>)) @@ (<<"F", "B", "A", " ", "P", "i", "c", "k", "&", "P", "a", "c", "k", " ", "F", "e", "e">> :> Str(<<"3", ".", "5", "0">>)) @@ (<<"R", "a", "t", "i", "n", "g", " ", "C", "o", "u", "n", "t", " ", "-", " ", "C", "h", "i", "l", "d">> :> Str(<<"7">>)) @@ (<<"R", "a", "t", "i", "n", "g", " ", "C", "o", "u", "n", "t">> :> Str(<<"3", "0">>))),
         ((<<"A", "S", "I", "N">> :> Str(<<"A", "1">>)) @@ (<<"P", "a", "r", "e", "n", "t", " ", "A", "S", "I", "N">> :> Str(<<"P", "2">>)) @@ (<<"B", "r", "a", "n", "d">> :> Str(<<"Y">>)) @@ (<<"T", "i", "t", "l", "e">> :> Str(<<"T", "3">>)) @@ (<<"C", "o", "l", "o", "r">> :> Str(<<>>)) @@ (<<"U", "P", "C">> :> Str(<<"n", "a", "n">>)) @@ (<<"B", "u", "y", " ", "B", "o", "x">> :> Str(<<>>)) @@ (<<"B", "u", "y", " ", "B", "o", "x", " ", "9", "0">> :> Str(<<"8", ".", "0", "0">>)) @@ (<<"R", "e", "f", "e", "r", "r", "a", "l", " ", "F", "e", "e", " ", "%">> :> Str(<<"1", "5", "0">>)) @@ (<<"F", "B", "A", " ", "P", "i", "c", "k", "&", "P", "a", "c", "k", " ", "F", "e", "e">> :> Str(<<>>)) @@ (<<"R", "a", "t", "i", "n", "g", " ", "C", "o", "u", "n", "t", " ", "-", " ", "C", "h", "i", "l", "d">> :> Str(<<>>)) @@ (<<"R", "a", "t", "i", "n", "g", " ", "C", "o", "u", "n", "t">> :> Str(<<>>))) >>)

\* a blank row, two rows without ASIN, and another listing of A2
MainSparse ==
    Sheet(KeepaHeaders,
      << ((<<"A", "S", "I", "N">> :> Str(<<>>)) @@ (<<"P", "a", "r", "e", "n", "t", " ", "A", "S", "I", "N">> :> Str(<<>>)) @@ (<<"B", "r", "a", "n", "d">> :> Str(<<>>)) @@ (<<"T", "i", "t", "l", "e">> :> Str(<<>>)) @@ (<<"C", "o", "l", "o", "r">> :> Str(<<>>)) @@ (<<"U", "P", "C">> :> Str(<<>>)) @@ (<<"B", "u", "y", " ", "B", "o", "x">> :> Str(<<>>)) @@ (<<"B", "u", "y", " ", "B", "o", "x", " ", "9", "0">> :> Str(<<>>)) @@ (<<"R", "e", "f", "e", "r", "r", "a", "l", " ", "F", "e", "e", " ", "%">> :> Str(<<>>)) @@ (<<"F", "B", "A", " ", "P", "i", "c", "k", "&", "P", "a", "c", "k", " ", "F", "e", "e">> :> Str(<<>>)) @@ (<<"R", "a", "t", "i", "n", "g", " ", "C", "o", "u", "n", "t", " ", "-", " ", "C", "h", "i", "l", "d">> :> Str(<<>>)) @@ (<<"R", "a", "t", "i", "n", "g", " ", "C", "o", "u", "n", "t">> :> Str(<<>>))),
         ((<<"A", "S", "I", "N">> :> Str(<<>>)) @@ (<<"P", "a", "r", "e", "n", "t", " ", "A", "S", "I", "N">> :> Str(<<"P", "2">>)) @@ (<<"B", "r", "a", "n", "d">> :> Str(<<"Y">>)) @@ (<<"T", "i", "t", "l", "e">> :> Str(<<"T", "4">>)) @@ (<<"C", "o", "l", "o", "r">> :> Str(<<"G", "r", "e", "e", "n">>)) @@ (<<"U", "P", "C">> :> Str(<<"U", "2">>)) @@ (<<"B", "u", "y", " ", "B", "o", "x">> :> Str(<<"1", "2", ".", "5", "0">>)) @@ (<<"B", "u", "y", " ", "B", "o", "x", " ", "9", "0">> :> Str(<<>>)) @@ (<<"R", "e", "f", "e", "r", "r", "a", "l", " ", "F", "e", "e", " ", "%">> :> Str(<<>>)) @@ (<<"F", "B", "A", " ", "P", "i", "c", "k", "&", "P", "a", "c", "k", " ", "F", "e", "e">> :> Str(<<>>)) @@ (<<"R", "a", "t", "i", "n", "g", " ", "C", "o", "u", "n", "t", " ", "-", " ", "C", "h", "i", "l", "d">> :> Str(<<"7">>)) @@ (<<"R", "a", "t", "i", "n", "g", " ", "C", "o", "u", "n", "t">> :> Str(<<"9">>))),
         ((<<"A", "S", "I", "N">> :> Str(<<>>)) @@ (<<"P", "a", "r", "e", "n", "t", " ", "A", "S", "I", "N">> :> Str(<<>>)) @@ (<<"B", "r", "a", "n", "d">> :> Str(<<"Z">>)) @@ (<<"T", "i", "t", "l", "e">> :> Str(<<"T", "5">>)) @@ (<<"C", "o", "l", "o", "r">> :> Str(<<>>)) @@ (<<"U", "P", "C">> :> Str(<<>>)) @@ (<<"B", "u", "y", " ", "B", "o", "x">> :> Str(<<>>)) @@ (<<"B", "u", "y", " ", "B", "o", "x", " ", "9", "0">> :> Str(<<"6">>)) @@ (<<"R", "e", "f", "e", "r", "r", "a", "l", " ", "F", "e", "e", " ", "%">> :> Str(<<>>)) @@ (<<"F", "B", "A", " ", "P", "i", "c", "k", "&", "P", "a", "c", "k", " ", "F", "e", "e">> :> Str(<<>>)) @@ (<<"R", "a", "t", "i", "n", "g", " ", "C", "o", "u", "n", "t", " ", "-", " ", "C", "h", "i", "l", "d">> :> Str(<<>>)) @@ (<<"R", "a", "t", "i", "n", "g", " ", "C", "o", "u", "n", "t">> :> Str(<<>>))),
         ((<<"A", "S", "I", "N">> :> Str(<<"A", "2">>)) @@ (<<"P", "a", "r", "e", "n", "t", " ", "A", "S", "I", "N">> :> Str(<<"P", "1">>)) @@ (<<"B", "r", "a", "n", "d">> :> Str(<<"X">>)) @@ (<<"T", "i", "t", "l", "e">> :> Str(<<"T", "6">>)) @@ (<<"C", "o", "l", "o", "r">> :> Str(<<"B", "l", "u", "e">>)) @@ (<<"U", "P", "C">> :> Str(<<"U", "9">>)) @@ (<<"B", "u", "y", " ", "B", "o", "x">> :> Str(<<"9", ".", "9", "9">>)) @@ (<<"B", "u", "y", " ", "B", "o", "x", " ", "9", "0">> :> Str(<<>>)) @@ (<<"R", "e", "f", "e", "r", "r", "a", "l", " ", "F", "e", "e", " ", "%">> :> Str(<<"8">>)) @@ (<<"F", "B", "A", " ", "P", "i", "c", "k", "&", "P", "a", "c", "k", " ", "F", "e", "e">> :> Str(<<>>)) @@ (<<"R", "a", "t", "i", "n", "g", " ", "C", "o", "u", "n", "t", " ", "-", " ", "C", "h", "i", "l", "d">> :> Str(<<"3">>)) @@ (<<"R", "a", "t", "i", "n", "g", " ", "C", "o", "u", "n", "t">> :> Str(<<"3", "0">>))) >>)

\* variants for the best-variant and best-colour rules: four listings of P1 with
\* the same child rating (ranks 500, 300, none, 300), P3 without ratings, and P4
\* with a single colour
RatingsHeaders ==
    << <<"A", "S", "I", "N">>,
       <<"P", "a", "r", "e", "n", "t", " ", "A", "S", "I", "N">>,
       <<"B", "r", "a", "n", "d">>,
       <<"T", "i", "t", "l", "e">>,
       <<"C", "o", "l", "o", "r">>,
       <<"S", "a", "l", "e", "s", " ", "R", "a", "n", "k">>,
       <<"R", "a", "t", "i", "n", "g", " ", "C", "o", "u", "n", "t", " ", "-", " ", "C", "h", "i", "l", "d">> >>

MainRatings ==
    Sheet(RatingsHeaders,
      << ((<<"A", "S", "I", "N">> :> Str(<<"B", "1">>)) @@ (<<"P", "a", "r", "e", "n", "t", " ", "A", "S", "I", "N">> :> Str(<<"P", "1">>)) @@ (<<"B", "r", "a", "n", "d">> :> Str(<<"X">>)) @@ (<<"T", "i", "t", "l", "e">> :> Str(<<"V", "1">>)) @@ (<<"C", "o", "l", "o", "r">> :> Str(<<"R", "e", "d">>)) @@ (<<"S", "a", "l", "e", "s", " ", "R", "a", "n", "k">> :> Str(<<"5", "0", "0">>)) @@ (<<"R", "a", "t", "i", "n", "g", " ", "C", "o", "u", "n", "t", " ", "-", " ", "C", "h", "i", "l", "d">> :> Str(<<"1", "0">>))),
         ((<<"A", "S", "I", "N">> :> Str(<<"B", "2">>)) @@ (<<"P", "a", "r", "e", "n", "t", " ", "A", "S", "I", "N">> :> Str(<<"P", "1">>)) @@ (<<"B", "r", "a", "n", "d">> :> Str(<<"X">>)) @@ (<<"T", "i", "t", "l", "e">> :> Str(<<"V", "2">>)) @@ (<<"C", "o", "l", "o", "r">> :> Str(<<"R", "e", "d">>)) @@ (<<"S", "a", "l", "e", "s", " ", "R", "a", "n", "k">> :> Str(<<"3", "0", "0">>)) @@ (<<"R", "a", "t", "i", "n", "g", " ", "C", "o", "u", "n", "t", " ", "-", " ", "C", "h", "i", "l", "d">> :> Str(<<"1", "0">>))),
         ((<<"A", "S", "I", "N">> :> Str(<<"B", "3">>)) @@ (<<"P", "a", "r", "e", "n", "t", " ", "A", "S", "I", "N">> :> Str(<<"P", "1">>)) @@ (<<"B", "r", "a", "n", "d">> :> Str(<<"X">>)) @@ (<<"T", "i", "t", "l", "e">> :> Str(<<"V", "3">>)) @@ (<<"C", "o", "l", "o", "r">> :> Str(<<"B", "l", "u", "e">>)) @@ (<<"S", "a", "l", "e", "s", " ", "R", "a", "n", "k">> :> Str(<<>>)) @@ (<<"R", "a", "t", "i", "n", "g", " ", "C", "o", "u", "n", "t", " ", "-", " ", "C", "h", "i", "l", "d">> :> Str(<<"1", "0">>))),
         ((<<"A", "S", "I", "N">> :> Str(<<"B", "4">>)) @@ (<<"P", "a", "r", "e", "n", "t", " ", "A", "S", "I", "N">> :> Str(<<"P", "1">>)) @@ (<<"B", "r", "a", "n", "d">> :> Str(<<"X">>)) @@ (<<"T", "i", "t", "l", "e">> :> Str(<<"V", "4">>)) @@ (<<"C", "o", "l", "o", "r">> :> Str(<<"B", "l", "u", "e">>)) @@ (<<"S", "a", "l", "e", "s", " ", "R", "a", "n", "k">> :> Str(<<"3", "0", "0">>)) @@ (<<"R", "a", "t", "i", "n", "g", " ", "C", "o", "u", "n", "t", " ", "-", " ", "C", "h", "i", "l", "d">> :> Str(<<"1", "0">>))),
         ((<<"A", "S", "I", "N">> :> Str(<<"B", "5">>)) @@ (<<"P", "a", "r", "e", "n", "t", " ", "A", "S", "I", "N">> :> Str(<<"P", "3">>)) @@ (<<"B", "r", "a", "n", "d">> :> Str(<<"Y">>)) @@ (<<"T", "i", "t", "l", "e">> :> Str(<<"V", "5">>)) @@ (<<"C", "o", "l", "o", "r">> :> Str(<<"G", "r", "e", "e", "n">>)) @@ (<<"S", "a", "l", "e", "s", " ", "R", "a", "n", "k">> :> Str(<<"1", "0", "0">>)) @@ (<<"R", "a", "t", "i", "n", "g", " ", "C", "o", "u", "n", "t", " ", "-", " ", "C", "h", "i", "l", "d">> :> Str(<<"0">>))),
         ((<<"A", "S", "I", "N">> :> Str(<<"B", "6">>)) @@ (<<"P", "a", "r", "e", "n", "t", " ", "A", "S", "I", "N">> :> Str(<<"P", "3">>)) @@ (<<"B", "r", "a", "n", "d">> :> Str(<<"Y">>)) @@ (<<"T", "i", "t", "l", "e">> :> Str(<<"V", "6">>)) @@ (<<"C", "o", "l", "o", "r">> :> Str(<<"G", "r", "e", "e", "n">>)) @@ (<<"S", "a", "l", "e", "s", " ", "R", "a", "n", "k">> :> Str(<<"5", "0">>)) @@ (<<"R", "a", "t", "i", "n", "g", " ", "C", "o", "u", "n", "t", " ", "-", " ", "C", "h", "i", "l", "d">> :> Str(<<"0">>))),
         ((<<"A", "S", "I", "N">> :> Str(<<"B", "7">>)) @@ (<<"P", "a", "r", "e", "n", "t", " ", "A", "S", "I", "N">> :> Str(<<"P", "4">>)) @@ (<<"B", "r", "a", "n", "d">> :> Str(<<"Z">>)) @@ (<<"T", "i", "t", "l", "e">> :> Str(<<"V", "7">>)) @@ (<<"C", "o", "l", "o", "r">> :> Str(<<"G", "r", "e", "e", "n">>)) @@ (<<"S", "a", "l", "e", "s", " ", "R", "a", "n", "k">> :> Str(<<"1", "0">>)) @@ (<<"R", "a", "t", "i", "n", "g", " ", "C", "o", "u", "n", "t", " ", "-", " ", "C", "h", "i", "l", "d">> :> Str(<<"5">>))),
         ((<<"A", "S", "I", "N">> :> Str(<<"B", "8">>)) @@ (<<"P", "a", "r", "e", "n", "t", " ", "A", "S", "I", "N">> :> Str(<<"P", "4">>)) @@ (<<"B", "r", "a", "n", "d">> :> Str(<<"Z">>)) @@ (<<"T", "i", "t", "l", "e">> :> Str(<<"V", "8">>)) @@ (<<"C", "o", "l", "o", "r">> :> Str(<<"G", "r", "e", "e", "n">>)) @@ (<<"S", "a", "l", "e", "s", " ", "R", "a", "n", "k">> :> Str(<<"2", "0">>)) @@ (<<"R", "a", "t", "i", "n", "g", " ", "C", "o", "u", "n", "t", " ", "-", " ", "C", "h", "i", "l", "d">> :> Str(<<"4">>))),
         ((<<"A", "S", "I", "N">> :> Str(<<"B", "9">>)) @@ (<<"P", "a", "r", "e", "n", "t", " ", "A", "S", "I", "N">> :> Str(<<"P", "5">>)) @@ (<<"B", "r", "a", "n", "d">> :> Str(<<"W">>)) @@ (<<"T", "i", "t", "l", "e">> :> Str(<<"V", "9">>)) @@ (<<"C", "o", "l", "o", "r">> :> Str(<<>>)) @@ (<<"S", "a", "l", "e", "s", " ", "R", "a", "n", "k">> :> Str(<<"1", "0", "0">>)) @@ (<<"R", "a", "t", "i", "n", "g", " ", "C", "o", "u", "n", "t", " ", "-", " ", "C", "h", "i", "l", "d">> :> Str(<<"3">>))),
         ((<<"A", "S", "I", "N">> :> Str(<<"B", "1", "0">>)) @@ (<<"P", "a", "r", "e", "n", "t", " ", "A", "S", "I", "N">> :> Str(<<"P", "5">>)) @@ (<<"B", "r", "a", "n", "d">> :> Str(<<"W">>)) @@ (<<"T", "i", "t", "l", "e">> :> Str(<<"V", "1", "0">>)) @@ (<<"C", "o", "l", "o", "r">> :> Str(<<"U", "n", "k", "n", "o", "w", "n">>)) @@ (<<"S", "a", "l", "e", "s", " ", "R", "a", "n", "k">> :> Str(<<"2", "0", "0">>)) @@ (<<"R", "a", "t", "i", "n", "g", " ", "C", "o", "u", "n", "t", " ", "-", " ", "C", "h", "i", "l", "d">> :> Str(<<"4">>))),
         ((<<"A", "S", "I", "N">> :> Str(<<"B", "1", "1">>)) @@ (<<"P", "a", "r", "e", "n", "t", " ", "A", "S", "I", "N">> :> Str(<<"P", "6">>)) @@ (<<"B", "r", "a", "n", "d">> :> Str(<<"U">>)) @@ (<<"T", "i", "t", "l", "e">> :> Str(<<"V", "1", "1">>)) @@ (<<"C", "o", "l", "o", "r">> :> Str(<<"R", "e", "d">>)) @@ (<<"S", "a", "l", "e", "s", " ", "R", "a", "n", "k">> :> Str(<<"1", "0", "0">>)) @@ (<<"R", "a", "t", "i", "n", "g", " ", "C", "o", "u", "n", "t", " ", "-", " ", "C", "h", "i", "l", "d">> :> Str(<<"2">>))),
         ((<<"A", "S", "I", "N">> :> Str(<<"B", "1", "2">>)) @@ (<<"P", "a", "r", "e", "n", "t", " ", "A", "S", "I", "N">> :> Str(<<"P", "6">>)) @@ (<<"B", "r", "a", "n", "d">> :> Str(<<"U">>)) @@ (<<"T", "i", "t", "l", "e">> :> Str(<<"V", "1", "2">>)) @@ (<<"C", "o", "l", "o", "r">> :> Str(<<"B", "l", "u", "e">>)) @@ (<<"S", "a", "l", "e", "s", " ", "R", "a", "n", "k">> :> Str(<<"2", "0", "0">>)) @@ (<<"R", "a", "t", "i", "n", "g", " ", "C", "o", "u", "n", "t", " ", "-", " ", "C", "h", "i", "l", "d">> :> Str(<<"1">>))),
         ((<<"A", "S", "I", "N">> :> Str(<<"B", "1", "3">>)) @@ (<<"P", "a", "r", "e", "n", "t", " ", "A", "S", "I", "N">> :> Str(<<"P", "6">>)) @@ (<<"B", "r", "a", "n", "d">> :> Str(<<"U">>)) @@ (<<"T", "i", "t", "l", "e">> :> Str(<<"V", "1", "3">>)) @@ (<<"C", "o", "l", "o", "r">> :> Str(<<>>)) @@ (<<"S", "a", "l", "e", "s", " ", "R", "a", "n", "k">> :> Str(<<"3", "0", "0">>)) @@ (<<"R", "a", "t", "i", "n", "g", " ", "C", "o", "u", "n", "t", " ", "-", " ", "C", "h", "i", "l", "d">> :> Str(<<"9">>))) >>)

\* a record without a Parent next to a record whose Parent is the text 'unassigned'
MainOrphans ==
    Sheet(RatingsHeaders,
      << ((<<"A", "S", "I", "N">> :> Str(<<"O", "1">>)) @@ (<<"P", "a", "r", "e", "n", "t", " ", "A", "S", "I", "N">> :> Str(<<>>)) @@ (<<"B", "r", "a", "n", "d">> :> Str(<<"Q">>)) @@ (<<"T", "i", "t", "l", "e">> :> Str(<<"V", "1", "1">>)) @@ (<<"C", "o", "l", "o", "r">> :> Str(<<"R", "e", "d">>)) @@ (<<"S", "a", "l", "e", "s", " ", "R", "a", "n", "k">> :> Str(<<"1", "0">>)) @@ (<<"R", "a", "t", "i", "n", "g", " ", "C", "o", "u", "n", "t", " ", "-", " ", "C", "h", "i", "l", "d">> :> Str(<<"5">>))),
         ((<<"A", "S", "I", "N">> :> Str(<<"O", "2">>)) @@ (<<"P", "a", "r", "e", "n", "t", " ", "A", "S", "I", "N">> :> Str(<<"u", "n", "a", "s", "s", "i", "g", "n", "e", "d">>)) @@ (<<"B", "r", "a", "n", "d">> :> Str(<<"Q">>)) @@ (<<"T", "i", "t", "l", "e">> :> Str(<<"V", "1", "2">>)) @@ (<<"C", "o", "l", "o", "r">> :> Str(<<"R", "e", "d">>)) @@ (<<"S", "a", "l", "e", "s", " ", "R", "a", "n", "k">> :> Str(<<"2", "0">>)) @@ (<<"R", "a", "t", "i", "n", "g", " ", "C", "o", "u", "n", "t", " ", "-", " ", "C", "h", "i", "l", "d">> :> Str(<<"3">>))) >>)

MainFiles == <<MainScenario, MainScenarioUpc, MainVariants, MainSparse, MainRatings,
               MainOrphans>>

\* the cost file of the end-to-end scenario
CostScenario ==
    Sheet(CostHeaders,
      << ((<<"U", "P", "C">> :> Str(<<"A", "1">>)) @@ (<<"C", "o", "s", "t">> :> Str(<<"4", ".", "0", "0">>)) @@ (<<"M", "S", "R", "P">> :> Str(<<"1", "5", ".", "0", "0">>))) >>)

\* a repeated code, a code that cleans to nothing, a row without cost and MSRP
CostRepeats ==
    Sheet(CostHeaders,
      << ((<<"U", "P", "C">> :> Str(<<"U", "2">>)) @@ (<<"C", "o", "s", "t">> :> Str(<<"3", ".", "0", "0">>)) @@ (<<"M", "S", "R", "P">> :> Str(<<"2", "0", ".", "0", "0">>))),
         ((<<"U", "P", "C">> :> Str(<<"U", "2">>)) @@ (<<"C", "o", "s", "t">> :> Str(<<"2", ".", "5", "0">>)) @@ (<<"M", "S", "R", "P">> :> Str(<<"1", "8", ".", "0", "0">>))),
         ((<<"U", "P", "C">> :> Str(<<"n", "a", "n">>)) @@ (<<"C", "o", "s", "t">> :> Str(<<"9">>)) @@ (<<"M", "S", "R", "P">> :> Str(<<"9">>))),
         ((<<"U", "P", "C">> :> Str(<<"A", "1">>)) @@ (<<"C", "o", "s", "t">> :> Str(<<"0">>)) @@ (<<"M", "S", "R", "P">> :> Str(<<"0">>))) >>)

\* a supplier sheet with pass-through columns
CostSupplier ==
    Sheet(SupplierHeaders,
      << ((<<"U", "P", "C">> :> Str(<<"U", "2">>)) @@ (<<"W", "h", "o", "l", "e", "s", "a", "l", "e", " ", "P", "r", "i", "c", "e">> :> Str(<<"$", "2", ".", "0", "0">>)) @@ (<<"M", "S", "R", "P">> :> Str(<<"2", "0", ".", "0", "0">>)) @@ (<<"C", "O", "S", "T">> :> Str(<<"2", ".", "0", "0">>)) @@ (<<"A", "S", "I", "N">> :> Str(<<"A", "1">>)) @@ (<<"N", "o", "t", "e", "s">> :> Str(<<"p", "r", "o", "m", "o">>))),
         ((<<"U", "P", "C">> :> Str(<<"A", "1">>)) @@ (<<"W", "h", "o", "l", "e", "s", "a", "l", "e", " ", "P", "r", "i", "c", "e">> :> Str(<<"4", ".", "0", "0">>)) @@ (<<"M", "S", "R", "P">> :> Str(<<"1", "5", ".", "0", "0">>)) @@ (<<"C", "O", "S", "T">> :> Str(<<>>)) @@ (<<"A", "S", "I", "N">> :> Str(<<>>)) @@ (<<"N", "o", "t", "e", "s">> :> Str(<<>>))) >>)

\* no cost file: costData = [] and costMappings = {}
CostFiles == <<Sheet(<<>>, <<>>), CostScenario, CostRepeats, CostSupplier>>

\* a stock/sales file
StockSheet ==
    Sheet(StockHeaders,
      << ((<<"U", "P", "C">> :> Str(<<"u", "-", "2">>)) @@ (<<"I", "n", " ", "S", "t", "o", "c", "k">> :> Str(<<"5">>)) @@ (<<"S", "a", "l", "e", "s">> :> Str(<<"3">>))),
         ((<<"U", "P", "C">> :> Str(<<"A", "1">>)) @@ (<<"I", "n", " ", "S", "t", "o", "c", "k">> :> Str(<<"0">>)) @@ (<<"S", "a", "l", "e", "s">> :> Str(<<"1">>))) >>)

StockFiles == <<Sheet(<<>>, <<>>), StockSheet>>

\* shippingCost and miscCost of the form
Charges == <<[shipping |-> IntV(0), misc |-> IntV(0)],
             [shipping |-> IntV(1), misc |-> Num(1, 2)]>>

MaxFiles == 2

-----------------------------------------------------------------------------
(* handleProcess (src/app/scouter/page.tsx) and the stages of processData  *)

REQUIRED_COLUMNS == {"Brand", "Parent", "ASIN", "Title"}

\* detectColumns(headers) and detectColumns(headers, COST_PATTERNS) of the sheets
\* of the model, computed once
Seqs(files) == {files[i].headers : i \in DOMAIN files}
Detected ==
    [h \in Seqs(MainFiles) \cup Seqs(StockFiles) |-> detectColumns(h, COLUMN_PATTERNS)]
DetectedCost ==
    [h \in Seqs(CostFiles) |-> detectColumns(h, COST_PATTERNS)]

\* the mappings state after upload: detectColumns of the first file's headers
UiMappings(files) ==
    IF files = <<>> THEN <<>> ELSE Detected[files[1].headers]

\* the cost / stock mappings state after upload; {} when no file was given
UiCostMappings(costFile) == DetectedCost[costFile.headers]
UiStockMappings(stockFile) == Detected[stockFile.headers]

\* detectColumns for this file, then the user's columns where this file has them
FileMapping(headers, mappings) ==
    LET detected == Detected[headers]
        chosen   == {std \in DOMAIN mappings :
                        \E i \in DOMAIN headers : Trim(headers[i]) = Trim(mappings[std])}
    IN  [std \in DOMAIN detected \cup chosen |->
            IF std \in chosen THEN mappings[std] ELSE detected[std]]

\* the rows of one file under standard keys
MappedRows(file, mappings) ==
    LET fileMapping == FileMapping(file.headers, mappings)
    IN  [i \in DOMAIN file.rows |->
            [std \in DOMAIN fileMapping |-> Get(file.rows[i], fileMapping[std])]]

RECURSIVE MergeFiles(_, _)
MergeFiles(files, mappings) ==
    IF files = <<>> THEN <<>>
    ELSE MappedRows(Head(files), mappings) \o MergeFiles(Tail(files), mappings)

identityMapping == [k \in Range(StandardFields) |-> k]

TheFiles     == [i \in DOMAIN inp.files |-> MainFiles[inp.files[i]]]
TheCostFile  == CostFiles[inp.cost]
TheStockFile == StockFiles[inp.stock]
TheCharges   == Charges[inp.charges]

Init ==
    /\ inp \in [files   : {f \in SeqsUpTo(DOMAIN MainFiles, MaxFiles) : f # <<>>},
                cost    : DOMAIN CostFiles,
                stock   : DOMAIN StockFiles,
                charges : DOMAIN Charges]
    /\ pc = "handleProcess"
    /\ mergedMainData = <<>>
    /\ processed = <<>>
    /\ mapped = <<>>
    /\ extraCols = <<>>
    /\ OrderIdle
    /\ CallIdle

\* the Process button: at least one main file, every required column mapped
HandleProcess ==
    /\ pc = "handleProcess"
    /\ Len(inp.files) > 0
    /\ REQUIRED_COLUMNS \subseteq DOMAIN UiMappings(TheFiles)
    /\ mergedMainData' = MergeFiles(TheFiles, UiMappings(TheFiles))
    /\ pc' = "mapAndSanitize"
    /\ UNCHANGED <<inp, processed, mapped, extraCols>>

\* 1. Map and sanitize
MapAndSanitize ==
    /\ pc = "mapAndSanitize"
    /\ processed' = mapAndSanitize(mergedMainData, identityMapping)
    /\ mapped' = processed'
    /\ pc' = "removeDuplicates"
    /\ UNCHANGED <<inp, mergedMainData, extraCols>>

\* 2. Remove duplicates on ASIN
Deduplicate ==
    /\ pc = "removeDuplicates"
    /\ processed' = RemoveDuplicates(processed)
    /\ pc' = "removeInvalid"
    /\ UNCHANGED <<inp, mergedMainData, mapped, extraCols>>

\* 3. Remove invalid
FilterInvalid ==
    /\ pc = "removeInvalid"
    /\ processed' = RemoveInvalid(processed)
    /\ pc' = "integrateCosts"
    /\ UNCHANGED <<inp, mergedMainData, mapped, extraCols>>

\* 4. Integrate costs
IntegrateCosts ==
    /\ pc = "integrateCosts"
    /\ LET r == integrateCosts(processed, TheCostFile, UiCostMappings(TheCostFile),
                               TheCharges.shipping, TheCharges.misc)
       IN  /\ processed' = r.processed
           /\ extraCols' = r.extraCols
    /\ pc' = "integrateInStockSales"
    /\ UNCHANGED <<inp, mergedMainData, mapped>>

\* 5. Integrate in-stock / sales data
IntegrateInStockSales ==
    /\ pc = "integrateInStockSales"
    /\ processed' = integrateInStockSales(processed, TheStockFile,
                                          UiStockMappings(TheStockFile))
    /\ pc' = "sort"
    /\ UNCHANGED <<inp, mergedMainData, mapped, extraCols>>

\* 6. Sort for grouping
Sort ==
    /\ pc = "sort"
    /\ processed' = SortForGrouping(processed)
    /\ pc' = "processBrain"
    /\ UNCHANGED <<inp, mergedMainData, mapped, extraCols>>

\* 7. Variant logic and calculations
ProcessBrain ==
    /\ pc = "processBrain"
    /\ processed' = processBrainOptimized(processed)
    /\ pc' = "ratingMetrics"
    /\ UNCHANGED <<inp, mergedMainData, mapped, extraCols>>

\* 8. Rating intelligence, and the return of processData
RatingMetrics ==
    /\ pc = "ratingMetrics"
    /\ processed' = calculateRatingMetricsOptimized(processed)
    /\ pc' = "done"
    /\ UNCHANGED <<inp, mergedMainData, mapped, extraCols>>

Next ==
    \/ HandleProcess /\ UNCHANGED <<orderVars, callVars>>
    \/ MapAndSanitize /\ UNCHANGED <<orderVars, callVars>>
    \/ Deduplicate /\ UNCHANGED <<orderVars, callVars>>
    \/ FilterInvalid /\ UNCHANGED <<orderVars, callVars>>
    \/ IntegrateCosts /\ UNCHANGED <<orderVars, callVars>>
    \/ IntegrateInStockSales /\ UNCHANGED <<orderVars, callVars>>
    \/ Sort /\ UNCHANGED <<orderVars, callVars>>
    \/ ProcessBrain /\ UNCHANGED <<orderVars, callVars>>
    \/ RatingMetrics /\ UNCHANGED <<orderVars, callVars>>

Spec == Init /\ [][Next]_vars

-----------------------------------------------------------------------------
(* Calls of the exported helpers on their own                              *)

\* the price cells of a record: absent, zero, negative, positive, text
PriceValues == {Undef, IntV(0), IntV(-3), Num(25, 2), IntV(20), Str(<<"8", ".", "0", "0">>)}

\* code cells: digits, letters of both cases, punctuation, the exponent letter,
\* blanks
CodeChars == {"0", "1", "A", "e", ".", "-", " "}
MaxCodeLen == 4
CodeCells == {Str(v) : v \in SeqsUpTo(CodeChars, MaxCodeLen)}

PriceRows ==
    {MkItem(o) : o \in [Range(BuyBoxColumns) \cup {"MSRP"} -> PriceValues]}

\* header lists: exact and partial matches, two headers of one standard
\* column, a header no pattern matches
HeaderNames == {<<"U", "P", "C">>, <<"C", "o", "s", "t">>, <<"U", "n", "i", "t", " ", "C", "o", "s", "t">>, <<"A", "S", "I", "N">>, <<"P", "a", "r", "e", "n", "t", " ", "A", "S", "I", "N">>, <<"N", "o", "t", "e", "s">>}
MaxHeaders == 2
HeaderLists == SeqsUpTo(HeaderNames, MaxHeaders)

\* candidates to score: with and without a badge, ranks one apart, 10,000
\* apart, missing (0) and beyond 500,000, review counts below and above the cap
ScoreRanks   == {0, 1000, 1001, 11000, 499999, 600000}
ScoreReviews == {0, 5, 1000, 2500}
ScoreProducts ==
    {OrderProduct(IntV(1), IntV(1), b, IntV(r), IntV(n), <<>>) :
        b \in {<<>>, sBadge50}, r \in ScoreRanks, n \in ScoreReviews}

\* code cells to clean twice: the short cells, a repeated suffix, an empty marker
\* behind a space and before a suffix
CleanCells == CodeCells \cup {Str(<<"1", ".", "0", ".", "0">>), Str(<<" ", "N", "a", "N">>), Str(<<"n", "a", "n", ".", "0">>), Str(<<"n", "o", "n", "e">>)}

HelperInit ==
    /\ PipeIdle
    /\ OrderIdle
    /\ ret = <<>>
    /\ \/ /\ fn = "getSalePrice"
          /\ args \in {<<row>> : row \in PriceRows}
       \/ /\ fn = "codeKeys"
          /\ args \in {<<v>> : v \in CodeCells}
       \/ /\ fn = "detectColumns"
          /\ args \in {<<h, p>> : h \in HeaderLists, p \in {COLUMN_PATTERNS, COST_PATTERNS}}
       \/ /\ fn = "score"
          /\ args \in ScoreProducts \X ScoreProducts
       \/ /\ fn = "cleanProductCode"
          /\ args \in {<<v>> : v \in CleanCells}

\* getSalePrice(row); the row is only read
CallGetSalePrice ==
    /\ fn = "getSalePrice"
    /\ ret = <<>>
    /\ ret' = <<getSalePrice(args[1])>>
    /\ UNCHANGED <<fn, args>>

\* the two keys of one code cell: cleanProductCode(v), then normalizeCode(v)
CallCleanProductCode ==
    /\ fn = "codeKeys"
    /\ ret = <<>>
    /\ ret' = <<Str(cleanProductCode(args[1]))>>
    /\ UNCHANGED <<fn, args>>

CallNormalizeCode ==
    /\ fn = "codeKeys"
    /\ Len(ret) = 1
    /\ ret' = Append(ret, normalizeCode(args[1]))
    /\ UNCHANGED <<fn, args>>

\* cleanProductCode(v), then cleanProductCode of what the first call returned
CallCleanAgain ==
    /\ fn = "cleanProductCode"
    /\ Len(ret) < 2
    /\ ret' = Append(ret, Str(cleanProductCode(IF ret = <<>> THEN args[1] ELSE ret[1])))
    /\ UNCHANGED <<fn, args>>

\* two calls in a row with the arguments as the first call left them
CallDetectColumns ==
    /\ fn = "detectColumns"
    /\ Len(ret) < 2
    /\ ret' = Append(ret, detectColumnsCall(args[1], args[2]).mapping)
    /\ args' = <<detectColumnsCall(args[1], args[2]).headers,
                 detectColumnsCall(args[1], args[2]).patternsMap>>
    /\ UNCHANGED fn

\* the scoring step of generateOrder on two candidates
CallScore ==
    /\ fn = "score"
    /\ ret = <<>>
    /\ ret' = <<Score(args[1]), Score(args[2])>>
    /\ UNCHANGED <<fn, args>>

HelperNext ==
    \/ CallGetSalePrice /\ UNCHANGED <<pipeVars, orderVars>>
    \/ CallCleanProductCode /\ UNCHANGED <<pipeVars, orderVars>>
    \/ CallNormalizeCode /\ UNCHANGED <<pipeVars, orderVars>>
    \/ CallDetectColumns /\ UNCHANGED <<pipeVars, orderVars>>
    \/ CallScore /\ UNCHANGED <<pipeVars, orderVars>>
    \/ CallCleanAgain /\ UNCHANGED <<pipeVars, orderVars>>

HelperSpec == HelperInit /\ [][HelperNext]_vars

-----------------------------------------------------------------------------
(* The progress reports of a processData run                               *)

\* The percent values depend on the records only through their number after
\* the filtering steps, the way the cost file was passed and joined, the
\* presence of a stock file and the sizes of the parent groups; a run is
\*   [n, cost, stock, group] with
\*   cost  = "undefined" (no costData or no mapping), "empty" (costData = []),
\*           "matched" (every record finds its cost) or "missed" (a record
\*           with a code finds none),
\*   group = the number of records of each parent group (the last group takes
\*           what is left).

\* the loops report every 5000 records
YieldEvery == 5000

RunSizes == {0, 1, 4999, 5000, 5001, 7000, 10000, 10001}
GroupSizes == {1, 3, 2500}

ProgressRuns ==
    {r \in [n : RunSizes, cost : {"undefined", "empty", "matched", "missed"},
            stock : BOOLEAN, group : GroupSizes] :
        r.cost = "missed" => r.n > 0}

\* the indexes i of the merge loop with i > 0 and i % 5000 = 0
MergeProgress(n) ==
    [k \in 1..((n - 1) \div YieldEvery) |-> 40 + (k * YieldEvery * 10) \div n]

integrateCostsProgress(run) ==
    IF run.cost = "undefined" THEN <<>>
    ELSE <<30, 40>> \o MergeProgress(run.n)
         \o (IF run.cost = "missed" THEN <<48>> ELSE <<>>)
         \o <<50>>

\* processedCount at the end of a parent group: a multiple of the group size,
\* or the number of records
IsGroupEnd(run, m) == m % run.group = 0 \/ m = run.n

\* the values of processedCount at which the group loop reports and yields:
\* the group ends with processedCount % 5000 = 0
BrainYields(run) ==
    SelectSeq([k \in 1..(run.n \div YieldEvery) |-> k * YieldEvery],
              LAMBDA m : IsGroupEnd(run, m))

\* the reports of the group loop
BrainProgress(run) ==
    [j \in DOMAIN BrainYields(run) |-> 70 + (BrainYields(run)[j] * 20) \div run.n]

ProgressInit ==
    /\ fn = "processData"
    /\ args \in {<<r>> : r \in ProgressRuns}
    /\ ret = <<>>
    /\ pc = "mapAndSanitize"
    /\ inp = <<>>
    /\ mergedMainData = <<>>
    /\ processed = <<>>
    /\ mapped = <<>>
    /\ extraCols = <<>>
    /\ OrderIdle

ReportMapping ==
    /\ fn = "processData"
    /\ pc = "mapAndSanitize"
    /\ ret' = Append(ret, 10)
    /\ pc' = "removeDuplicates"

ReportDuplicates ==
    /\ fn = "processData"
    /\ pc = "removeDuplicates"
    /\ ret' = Append(ret, 20)
    /\ pc' = "integrateCosts"

ReportCosts ==
    /\ fn = "processData"
    /\ pc = "integrateCosts"
    /\ ret' = ret \o integrateCostsProgress(args[1])
    /\ pc' = "integrateInStockSales"

ReportStock ==
    /\ fn = "processData"
    /\ pc = "integrateInStockSales"
    /\ ret' = IF args[1].stock THEN Append(ret, 50) ELSE ret
    /\ pc' = "sort"

ReportSort ==
    /\ fn = "processData"
    /\ pc = "sort"
    /\ ret' = Append(ret, 60)
    /\ pc' = "processBrain"

ReportBrain ==
    /\ fn = "processData"
    /\ pc = "processBrain"
    /\ ret' = Append(ret, 70) \o BrainProgress(args[1])
    /\ pc' = "ratingMetrics"

ReportRatings ==
    /\ fn = "processData"
    /\ pc = "ratingMetrics"
    /\ ret' = ret \o <<90, 100>>
    /\ pc' = "done"

progressUnchanged ==
    <<inp, mergedMainData, processed, mapped, extraCols, orderVars, fn, args>>

ProgressNext ==
    \/ ReportMapping /\ UNCHANGED progressUnchanged
    \/ ReportDuplicates /\ UNCHANGED progressUnchanged
    \/ ReportCosts /\ UNCHANGED progressUnchanged
    \/ ReportStock /\ UNCHANGED progressUnchanged
    \/ ReportSort /\ UNCHANGED progressUnchanged
    \/ ReportBrain /\ UNCHANGED progressUnchanged
    \/ ReportRatings /\ UNCHANGED progressUnchanged

ProgressSpec == ProgressInit /\ [][ProgressNext]_vars

-----------------------------------------------------------------------------
(* Claims about the order builder                                          *)

RECURSIVE SumField(_, _)
SumField(items, f) ==
    IF items = <<>> THEN IntV(0) ELSE NAdd(items[1][f], SumField(Tail(items), f))

\* C1: the total spend never exceeds the budget: after every step of the
\* allocation walk currentSpend <= budget, and the TotalCost of the order items
\* collected so far (at the end: of the returned order) sums to at most the budget.
C1_SpendWithinBudget ==
    opc \in {"walk", "done"} =>
        /\ NLe(currentSpend, budget)
        /\ NLe(SumField(orderItems, "TotalCost"), budget)

\* C1 witness: a returned order of two items in which the budget cut the last
\* item below its unit cap.
C1_Witness ==
    /\ opc = "done"
    /\ Len(orderItems) >= 2
    /\ NLt(orderItems[Len(orderItems)]["Units"],
           IntV(MaxUnits(orderItems[Len(orderItems)])))
    /\ NGt(currentSpend, IntV(0))

\* the budgets of the model that are at most b
BudgetsUpTo(b) == {v \in {IntV(x) : x \in 1..MaxBudget} : NLe(v, b)}

\* every candidate of the run has the same unit cost
SameUnitCost ==
    \A i, j \in DOMAIN cands :
        NEq(UnitCost(cands[i].product), UnitCost(cands[j].product))

\* C2 (as claimed): for a fixed product list and budgets b1 <= b2 the order for b2
\* has at least as many units in total as the order for b1.
C2_UnitsMonotone ==
    opc = "done" =>
        \A b1 \in BudgetsUpTo(budget) :
            NLe(SumField(generateOrder(products, b1), "Units"),
                SumField(orderItems, "Units"))

\* C2 (amended): when all eligible candidates have the same unit cost, the order
\* for the larger budget has at least as many units in total.
C2_UnitsMonotoneSameCost ==
    (opc = "done" /\ SameUnitCost) =>
        \A b1 \in BudgetsUpTo(budget) :
            NLe(SumField(generateOrder(products, b1), "Units"),
                SumField(orderItems, "Units"))

\* C2 witness: two different candidates of equal unit cost, both bought, and a
\* smaller budget that buys strictly fewer units.
C2_Witness ==
    /\ opc = "done"
    /\ SameUnitCost
    /\ Len(orderItems) = 2
    /\ cands[1].product # cands[2].product
    /\ \E b1 \in BudgetsUpTo(budget) :
          NLt(SumField(generateOrder(products, b1), "Units"),
              SumField(orderItems, "Units"))

\* C3 (as claimed): for a fixed product list and budgets b1 <= b2 the order for b2
\* has at least as much total EstProfit as the order for b1.
C3_ProfitMonotone ==
    opc = "done" =>
        \A b1 \in BudgetsUpTo(budget) :
            NLe(SumField(generateOrder(products, b1), "EstProfit"),
                SumField(orderItems, "EstProfit"))

\* C3 (amended): when all eligible candidates have the same unit cost, the order
\* for the larger budget has at least as much total EstProfit.
C3_ProfitMonotoneSameCost ==
    (opc = "done" /\ SameUnitCost) =>
        \A b1 \in BudgetsUpTo(budget) :
            NLe(SumField(generateOrder(products, b1), "EstProfit"),
                SumField(orderItems, "EstProfit"))

\* C3 witness: two different candidates of equal unit cost, both bought, and a
\* smaller budget that earns strictly less.
C3_Witness ==
    /\ opc = "done"
    /\ SameUnitCost
    /\ Len(orderItems) = 2
    /\ cands[1].product # cands[2].product
    /\ NGt(SumField(orderItems, "EstProfit"), IntV(0))
    /\ \E b1 \in BudgetsUpTo(budget) :
          NLt(SumField(generateOrder(products, b1), "EstProfit"),
              SumField(orderItems, "EstProfit"))

-----------------------------------------------------------------------------
(* Two processData runs in one event loop                                  *)

\* ret[r] is what run r holds while suspended: its position, its processed
\* array, the costMap of its integrateCosts call and the columns that call
\* returns; args[r] are the arguments of run r as handleProcess passes them.
\* A run gives way after the first row of mapAndSanitize (i % 5000 === 0), at the
\* end of integrateCosts, of integrateInStockSales and of processBrainOptimized;
\* the merge loop of integrateCosts gives way every 5000 records, which the
\* model widens to a suspension between the indexing and the loop.
TwoRunMain  == {3, 4}
TwoRunCost  == {3, 4}
TwoRunStock == {1, 2}

ProcessDataArgs(m, c, s) ==
    [mainData         |-> MergeFiles(<<MainFiles[m]>>, UiMappings(<<MainFiles[m]>>)),
     mapping          |-> identityMapping,
     costData         |-> CostFiles[c],
     costMapping      |-> UiCostMappings(CostFiles[c]),
     inStockSalesData |-> StockFiles[s],
     inStockMapping   |-> UiStockMappings(StockFiles[s]),
     shippingCost     |-> IntV(1),
     miscCost         |-> Num(1, 2)]

TwoRunArgs ==
    {ProcessDataArgs(m, c, s) : m \in TwoRunMain, c \in TwoRunCost, s \in TwoRunStock}

RunStart == [pc |-> "start", processed |-> <<>>, costMap |-> <<>>, extraCols |-> <<>>]

\* (mutant of ArgumentsAfter: the sanitized item is the input row itself)
ArgumentsAfter_ItemIsRow(st, a) ==
    IF st.pc = "start"
    THEN [a EXCEPT !.mainData = mapAndSanitize(a.mainData, a.mapping)]
    ELSE a

\* the arguments of a run after one of its steps: rows, mappings and files are
\* only read
ArgumentsAfter(st, a) == a

\* the code a run executes between two suspensions
processDataStep(st, a) ==
    CASE st.pc = "start" ->
            [st EXCEPT !.pc = "mapAndSanitize",
                       !.processed = mapAndSanitize(SubSeq(a.mainData, 1, 1), a.mapping)]
      [] st.pc = "mapAndSanitize" ->
            [st EXCEPT
               !.pc = "integrateCosts",
               !.processed =
                   RemoveInvalid(RemoveDuplicates(
                       st.processed \o mapAndSanitize(SubSeq(a.mainData, 2, Len(a.mainData)),
                                                      a.mapping))),
               !.costMap =
                   IF a.costData.absent THEN <<>>
                   ELSE WithValue(
                          <<MappedOr(a.costMapping, "COST", KeyChars["COST"]),
                            MappedOr(a.costMapping, "MSRP", KeyChars["MSRP"]),
                            MappedOr(a.costMapping, "Imported by Code",
                                     KeyChars["Imported by Code"])>>,
                          LAMBDA k :
                            BuildCostMap(a.costData.rows, k[1], k[2], k[3],
                                SelectSeq(IF a.costData.rows = <<>> THEN <<>>
                                          ELSE a.costData.headers,
                                          LAMBDA h : h \notin {k[1], k[2], k[3]}),
                                <<>>))]
      [] st.pc = "integrateCosts" ->
            [st EXCEPT
               !.pc = "integrateInStockSales",
               !.processed =
                   IF a.costData.absent
                   THEN integrateCosts(st.processed, a.costData, a.costMapping,
                                       a.shippingCost, a.miscCost).processed
                   ELSE [i \in DOMAIN st.processed |->
                            MergeCost(st.processed[i], st.costMap, a.shippingCost,
                                      a.miscCost, Len(a.costData.rows) > 0)],
               !.extraCols = integrateCosts(<<>>, a.costData, a.costMapping,
                                            a.shippingCost, a.miscCost).extraCols]
      [] st.pc = "integrateInStockSales" ->
            [st EXCEPT !.pc = "processBrain",
                       !.processed = integrateInStockSales(st.processed, a.inStockSalesData,
                                                           a.inStockMapping)]
      [] st.pc = "processBrain" ->
            [st EXCEPT !.pc = "ratingMetrics",
                       !.processed = processBrainOptimized(SortForGrouping(st.processed))]
      [] st.pc = "ratingMetrics" ->
            [st EXCEPT !.pc = "done",
                       !.processed = calculateRatingMetricsOptimized(st.processed)]

TwoRunsInit ==
    /\ PipeIdle
    /\ OrderIdle
    /\ fn = "processData, processData"
    /\ args \in TwoRunArgs \X TwoRunArgs
    /\ ret = <<RunStart, RunStart>>

\* the event loop resumes run r
RunStep(r) ==
    /\ fn = "processData, processData"
    /\ ret[r].pc # "done"
    /\ ret' = [ret EXCEPT ![r] = processDataStep(ret[r], args[r])]
    /\ args' = [args EXCEPT ![r] = ArgumentsAfter(ret[r], args[r])]
    /\ UNCHANGED fn

TwoRunsNext ==
    \/ RunStep(1) /\ UNCHANGED <<pipeVars, orderVars>>
    \/ RunStep(2) /\ UNCHANGED <<pipeVars, orderVars>>

TwoRunsSpec == TwoRunsInit /\ [][TwoRunsNext]_vars


-----------------------------------------------------------------------------
(* Claims about the pipeline                                               *)

Computed == pc \in {"ratingMetrics", "done"}
Ingested == pc \notin {"idle", "handleProcess", "mapAndSanitize"}
Deduplicated == Ingested /\ pc # "removeDuplicates"

\* COST + Pick & Pack of a computed record, as a number
LandedCost(r) == ToNumber(JsAdd(OrElse(r["COST"], IntV(0)), OrElse(r["Pick & Pack"], IntV(0))))

\* the profit the Buy-Box-only price gives
Profit_FromBuyBoxOnly(row) ==
    LET price       == getBuyBoxWaterfallPrice(row)
        cost        == JsAdd(OrElse(row["COST"], IntV(0)), OrElse(row["Pick & Pack"], IntV(0)))
        referralFee == OrElse(row["Referral Fee &"], Num(15, 100))
    IN  IF ~Truthy(price) THEN NNeg(ToNumber(cost))
        ELSE JsSub(JsMul(price, JsSub(IntV(1), referralFee)), cost)

\* C4 (as stated): every computed record's Profit is the Buy-Box-only waterfall
\* price times (1 - referral fee) minus (COST + Pick & Pack), or minus
\* (COST + Pick & Pack) when no Buy Box price exists; 'Price Used For BB Profit'
\* is 'No Buybox' exactly when Profit is that pure loss.
C4_ProfitFromBuyBoxPrice ==
    Computed =>
        \A i \in DOMAIN processed :
            LET r == processed[i]
            IN  /\ r["Profit"] = Profit_FromBuyBoxOnly(r)
                /\ (r["Price Used For BB Profit"] = Str(<<"N", "o", " ", "B", "u", "y", "b", "o", "x">>))
                        <=> (r["Profit"] = NNeg(LandedCost(r)))

ScenarioRun(file) ==
    /\ pc = "done"
    /\ inp.files = <<file>>
    /\ inp.cost = 2
    /\ inp.charges = 2

\* the figures of the end-to-end scenario for the single resulting record
ScenarioFigures(cost, profit, roi) ==
    /\ Len(processed) = 1
    /\ processed[1]["COST"] = cost
    /\ processed[1]["Price Used For BB Profit"] = Str(<<"1", "0", ".", "0", "0">>)
    /\ processed[1]["Referral Fee &"] = Num(15, 100)
    /\ processed[1]["Pick & Pack"] = IntV(7)
    /\ processed[1]["Profit"] = profit
    /\ processed[1]["ROI"] = roi

\* C5 (as stated): the scenario's main row {ASIN A1, ... Buy Box $10.00} with the
\* cost row {UPC A1, Cost 4.00, MSRP 15.00}, shipping 1 and misc 0.5 yields one
\* record with COST 5.50, price used 10.00, fee 0.15, Pick & Pack 7.00,
\* Profit -4.0 and ROI 100 * (-4.0) / 5.50.
C5_ScenarioAsStated ==
    ScenarioRun(1) => ScenarioFigures(Num(11, 2), IntV(-4), Num(-800, 11))

\* C5 (amended): those figures result when the main row also carries the product
\* code (UPC A1); the main row as given has no code column, no cost row matches,
\* and the record has COST 1.50, MSRP 0, Profit 0 and ROI 0.
C5_ScenarioWithCode ==
    /\ ScenarioRun(2) => /\ ScenarioFigures(Num(11, 2), IntV(-4), Num(-800, 11))
                         /\ processed[1]["MSRP"] = IntV(15)
    /\ ScenarioRun(1) => /\ ScenarioFigures(Num(3, 2), IntV(0), IntV(0))
                         /\ processed[1]["MSRP"] = IntV(0)

C5_Witness ==
    /\ ScenarioRun(2)
    /\ Len(processed) = 1
    /\ processed[1]["ASIN"] = Str(<<"A", "1">>)
    /\ processed[1]["COST"] = Num(11, 2)
    /\ processed[1]["Profit"] = IntV(-4)

\* C6 (as stated): after the dedup step and in every later stage up to the
\* returned list, no two records share the same non-empty ASIN.
C6_AsinUnique ==
    Deduplicated =>
        \A i, j \in DOMAIN processed :
            (i < j /\ Truthy(processed[i]["ASIN"]))
                => processed[i]["ASIN"] # processed[j]["ASIN"]

\* the records of seq at the positions in idx, in order
RECURSIVE Pick(_, _, _)
Pick(seq, idx, i) ==
    IF i > Len(seq) THEN <<>>
    ELSE (IF i \in idx THEN <<seq[i]>> ELSE <<>>) \o Pick(seq, idx, i + 1)

\* positions of the ingested list that carry an empty ASIN or the first
\* occurrence of their ASIN
FirstOfAsin ==
    {i \in DOMAIN mapped :
        \/ ~Truthy(mapped[i]["ASIN"])
        \/ \A j \in 1..(i - 1) : mapped[j]["ASIN"] # mapped[i]["ASIN"]}

\* positions with at least one of Brand, Parent, ASIN, Title
Identified ==
    {i \in DOMAIN mapped : \E f \in {"Brand", "Parent", "ASIN", "Title"} : Truthy(mapped[i][f])}

\* C7: the dedup step keeps, in input order, exactly the first record of each
\* non-empty ASIN and every record with an empty ASIN; the only other removal is
\* of the rows lacking Brand, Parent, ASIN and Title together.
C7_DedupKeepsFirst ==
    /\ pc = "removeInvalid" => processed = Pick(mapped, FirstOfAsin, 1)
    /\ pc = "integrateCosts" => processed = Pick(mapped, FirstOfAsin \cap Identified, 1)
    /\ Deduplicated /\ pc # "removeInvalid"
            => Len(processed) = Cardinality(FirstOfAsin \cap Identified)

C7_Witness ==
    /\ pc = "integrateCosts"
    /\ \E i, j \in DOMAIN mapped :
            i < j /\ Truthy(mapped[i]["ASIN"]) /\ mapped[i]["ASIN"] = mapped[j]["ASIN"]
                  /\ mapped[i] # mapped[j]
    /\ \E i, j \in FirstOfAsin \cap Identified :
            i < j /\ ~Truthy(mapped[i]["ASIN"]) /\ ~Truthy(mapped[j]["ASIN"])
    /\ DOMAIN mapped \ Identified # {}
    /\ Len(processed) < Len(mapped)

\* C8 (as stated): after ingestion and in every later stage, 'Referral Fee &' and
\* 'AMZ In Stock %' of every record are fractions in [0,1].
C8_PercentInUnitInterval ==
    Ingested =>
        \A i \in DOMAIN processed : \A f \in PercentColumns :
            /\ IsNum(processed[i][f])
            /\ NLe(IntV(0), processed[i][f])
            /\ NLe(processed[i][f], IntV(1))

\* C9 (as stated): after ingestion and in every later stage up to the returned
\* list, COST and MSRP of every record are numbers, never undefined and never a
\* raw string.
C9_CostAndMsrpNumeric ==
    Ingested =>
        \A i \in DOMAIN processed :
            IsNum(processed[i]["COST"]) /\ IsNum(processed[i]["MSRP"])

\* the cost rows whose cleaned identifier equals the (cleaned, non-empty)
\* identifier of the record
RowsFor(item) ==
    LET upcKey == MappedOr(UiCostMappings(TheCostFile), "Imported by Code",
                           KeyChars["Imported by Code"])
        id     == OrElse(item["Imported by Code"], Str(<<>>))
    IN  {n \in DOMAIN TheCostFile.rows :
            /\ Truthy(id)
            /\ Str(cleanProductCode(Get(TheCostFile.rows[n], upcKey))) = id}

\* the cost and the MSRP of a cost row
RowCost(n) ==
    CostNumber(Get(TheCostFile.rows[n],
                   MappedOr(UiCostMappings(TheCostFile), "COST", KeyChars["COST"])))
RowMsrp(n) ==
    CostNumber(Get(TheCostFile.rows[n],
                   MappedOr(UiCostMappings(TheCostFile), "MSRP", KeyChars["MSRP"])))

WithCharges(cost) == NAdd(NAdd(ToNumber(cost), TheCharges.shipping), TheCharges.misc)

\* C10 (as stated): cost enrichment gives every record whose cleaned identifier
\* equals that of a cost row COST = that row's cost + shipping + misc and
\* MSRP = that row's MSRP, and every other record COST = its existing COST +
\* shipping + misc.
C10_CostEnrichment ==
    [][pc = "integrateCosts" =>
            /\ Len(processed') = Len(processed)
            /\ \A i \in DOMAIN processed :
                  IF RowsFor(processed[i]) # {}
                  THEN \E n \in RowsFor(processed[i]) :
                          /\ processed'[i]["COST"] = WithCharges(RowCost(n))
                          /\ processed'[i]["MSRP"] = RowMsrp(n)
                  ELSE processed'[i]["COST"] = WithCharges(processed[i]["COST"])]_vars

\* the maximal run of equal Parent around position i of the sorted list
RunOf(i) ==
    {j \in DOMAIN processed :
        \A k \in DOMAIN processed :
            ((i <= k /\ k <= j) \/ (j <= k /\ k <= i))
                => processed[k]["Parent"] = processed[i]["Parent"]}

\* the Sales Rank of a record, a missing rank counting as 9,999,999
RankFor(r) == IF Truthy(r["Sales Rank"]) THEN ToNumber(r["Sales Rank"]) ELSE IntV(9999999)

ChildRatingOf(r) == ToNumber(r["Rating Count - Child"])

\* position i carries the largest child rating of its run, that rating is
\* positive, and no record of the run with that rating has a lower rank, or the
\* same rank and an earlier position
IsBestOfRun(i) ==
    /\ NGt(ChildRatingOf(processed[i]), IntV(0))
    /\ \A j \in RunOf(i) :
          /\ NLe(ChildRatingOf(processed[j]), ChildRatingOf(processed[i]))
          /\ NEq(ChildRatingOf(processed[j]), ChildRatingOf(processed[i]))
                => \/ NLt(RankFor(processed[i]), RankFor(processed[j]))
                   \/ NEq(RankFor(processed[i]), RankFor(processed[j])) /\ i <= j

Flagged(r, f) == r[f] = Bool(TRUE)

\* C11: in every run of equal Parent of the sorted list, the record flagged
\* _isBestVariant is the one with the run's largest 'Rating Count - Child',
\* that maximum being positive, the lowest Sales Rank among the records with
\* that maximum (a missing rank counts as 9,999,999) and the earliest position
\* among equal ranks; a run whose maximum is 0 has no flagged record.
C11_BestVariant ==
    Computed =>
        \A i \in DOMAIN processed :
            Flagged(processed[i], "_isBestVariant") <=> IsBestOfRun(i)

C11_Witness ==
    /\ pc = "done"
    /\ \E i \in DOMAIN processed :
          /\ Flagged(processed[i], "_isBestVariant")
          /\ \E j \in RunOf(i) :
                /\ j < i
                /\ processed[j]["Rating Count - Child"] = processed[i]["Rating Count - Child"]
                /\ ~Truthy(processed[j]["Sales Rank"])
          /\ \E j \in RunOf(i) :
                /\ j > i
                /\ processed[j]["Rating Count - Child"] = processed[i]["Rating Count - Child"]
                /\ processed[j]["Sales Rank"] = processed[i]["Sales Rank"]
    /\ \E i \in DOMAIN processed :
          /\ Cardinality(RunOf(i)) > 1
          /\ \A j \in RunOf(i) : /\ processed[j]["Rating Count - Child"] = IntV(0)
                                  /\ ~Flagged(processed[j], "_isBestVariant")

\* the positions of the records of the Parent of position i
OfParent(i) == {j \in DOMAIN processed : processed[j]["Parent"] = processed[i]["Parent"]}

\* the distinct non-empty colours of those records
ColorsOfParent(i) ==
    {processed[j]["Color"] : j \in {k \in OfParent(i) : Truthy(processed[k]["Color"])}}

\* C12: after the rating pass, no record of a Parent whose records carry only
\* one distinct non-empty Color has _isBestColor = true, whatever the totals.
C12_BestColorExclusive ==
    pc = "done" =>
        \A i \in DOMAIN processed :
            Cardinality(ColorsOfParent(i)) = 1
                => \A j \in OfParent(i) : ~Flagged(processed[j], "_isBestColor")

C12_Witness ==
    /\ pc = "done"
    /\ \E i \in DOMAIN processed :
          /\ Truthy(processed[i]["Parent"])
          /\ Cardinality(ColorsOfParent(i)) = 1
          /\ Cardinality(OfParent(i)) > 1
          /\ NGt(ToNumber(processed[i]["Total Color Ratings"]), IntV(0))
          /\ \A j \in OfParent(i) :
                NLe(ToNumber(processed[j]["Total Color Ratings"]),
                    ToNumber(processed[i]["Total Color Ratings"]))
          /\ ~Flagged(processed[i], "_isBestColor")
    /\ \E i \in DOMAIN processed : Flagged(processed[i], "_isBestColor")

\* the columns getSalePrice consults, in the claimed order
PriceOrder == <<"Buy Box", "Buy Box 30", "Buy Box 90", "Buy Box 180", "MSRP">>

\* the first strictly positive value of the row in that order; Undef when none
FirstPositive(row) ==
    LET positive == {k \in DOMAIN PriceOrder : NGt(ToNumber(row[PriceOrder[k]]), IntV(0))}
    IN  IF positive = {} THEN Undef
        ELSE ToNumber(row[PriceOrder[CHOOSE k \in positive : \A j \in positive : k <= j]])

PriceRow(bb, bb30, bb90, bb180, msrp) ==
    MkItem(("Buy Box" :> bb) @@ ("Buy Box 30" :> bb30) @@ ("Buy Box 90" :> bb90)
           @@ ("Buy Box 180" :> bb180) @@ ("MSRP" :> msrp))

Returned(f) == fn = f /\ ret # <<>>

\* C13: getSalePrice returns the first strictly positive value in the order
\* Buy Box, Buy Box 30, Buy Box 90, Buy Box 180, MSRP, and no price (null) when
\* none is positive; (0, 0, 12.50, -, MSRP 20) gives 12.50, Buy Box values all 0
\* with MSRP 20 gives 20, all zero gives no price.
C13_SalePriceWaterfall ==
    Returned("getSalePrice") =>
        /\ ret[1] = FirstPositive(args[1])
        /\ args[1] = PriceRow(IntV(0), IntV(0), Num(25, 2), Undef, IntV(20))
                => ret[1] = Num(25, 2)
        /\ args[1] = PriceRow(IntV(0), IntV(0), IntV(0), IntV(0), IntV(20))
                => ret[1] = IntV(20)
        /\ args[1] = PriceRow(IntV(0), IntV(0), IntV(0), IntV(0), IntV(0))
                => ret[1] = Undef

C13_Witness ==
    /\ Returned("getSalePrice")
    /\ args[1] = PriceRow(IntV(0), IntV(0), Num(25, 2), Undef, IntV(20))
    /\ ret[1] = Num(25, 2)

AllDigits(s) == s # <<>> /\ \A i \in DOMAIN s : IsDigit(s[i])

IsPunctuation(c) == ~IsAlnum(c) /\ c # " "

\* letters or digits together with punctuation
MixedWithPunctuation(s) ==
    /\ \E i \in DOMAIN s : IsAlnum(s[i])
    /\ \E i \in DOMAIN s : IsPunctuation(s[i])

\* s trimmed, without one trailing ".0"
CodeCore(s) ==
    LET t == Trim(s)
    IN  IF Len(t) >= 2 /\ t[Len(t) - 1] = "." /\ t[Len(t)] = "0"
        THEN SubSeq(t, 1, Len(t) - 2) ELSE t

\* both keys are strings, equal once case is ignored
KeysAgree == /\ IsStr(ret[1])
             /\ IsStr(ret[2])
             /\ ToUpperCase(ret[1].s) = ToUpperCase(ret[2].s)

BothKeys == fn = "codeKeys" /\ Len(ret) = 2

\* C14 (as stated): cleanProductCode(v) and normalizeCode(v) agree, except for
\* case, when v consists only of digits, and differ whenever v is a mixed
\* value that contains a punctuation character.
C14_KeyAsymmetry ==
    BothKeys =>
        /\ AllDigits(args[1].s) => KeysAgree
        /\ MixedWithPunctuation(args[1].s) => ~KeysAgree

\* C14 (amended): the two keys agree, except for case, when v consists only of
\* digits, and differ whenever v, trimmed and without one trailing ".0", still
\* contains a character that is not a letter or a digit.
C14_KeyAsymmetryAfterSuffix ==
    BothKeys =>
        /\ AllDigits(args[1].s) => KeysAgree
        /\ (\E i \in DOMAIN CodeCore(args[1].s) : ~IsAlnum(CodeCore(args[1].s)[i]))
                => ~KeysAgree

C14_Witness ==
    /\ BothKeys
    /\ args[1] = Str(<<"A", "-", "1">>)
    /\ ret[1] = Str(<<"A", "-", "1">>)
    /\ ret[2] = Str(<<"A", "1">>)

Finite(v) == v.k \notin {"nan", "inf"}

\* COST of a computed record, read as a number (a missing COST is 0)
CostOf(r) == ToNumber(OrElse(r["COST"], IntV(0)))

\* C15 (as stated): for every computed record ROI = 100 * Profit / COST when
\* COST is non-zero and ROI = 0 when COST is 0; 'Margin Div' is 0 unless both
\* the Buy Box price and COST are positive; no ROI, margin or Margin Div value
\* is NaN or infinite.
C15_ZeroCostSpecialCased ==
    Computed =>
        \A i \in DOMAIN processed :
            LET r == processed[i]
            IN  /\ r["ROI"] = IF NEq(CostOf(r), IntV(0)) THEN IntV(0)
                              ELSE NDiv(NMul(IntV(100), ToNumber(r["Profit"])), CostOf(r))
                /\ ~(NGt(ToNumber(getBuyBoxWaterfallPrice(r)), IntV(0))
                        /\ NGt(CostOf(r), IntV(0)))
                      => r["Margin Div"] = IntV(0)
                /\ \A f \in {"ROI", "Margin Div", "Profit Margin (Buybox)",
                              "Profit Margin (MSRP)"} : Finite(r[f])

\* C16 (as stated): within one processData run the percent values passed to the
\* progress callback never decrease from one call to the next, and the last
\* call reports 100, whatever the number of records and the outcome of the
\* cost join.
C16_ProgressMonotone ==
    /\ \A i \in 1..(Len(ret) - 1) : ret[i] <= ret[i + 1]
    /\ pc = "done" => ret # <<>> /\ ret[Len(ret)] = 100

CostsIntegrated ==
    pc \in {"integrateInStockSales", "sort", "processBrain", "ratingMetrics", "done"}

\* the columns of the cost rows other than the mapped code, cost and MSRP
\* columns
PassThroughColumns ==
    {h \in UNION {DOMAIN TheCostFile.rows[i] : i \in DOMAIN TheCostFile.rows} :
        h \notin {MappedOr(UiCostMappings(TheCostFile), std, KeyChars[std]) :
                    std \in {"Imported by Code", "COST", "MSRP"}}}

RankForCap(p, asItStands) ==
    IF asItStands \/ NGt(ToNumber(p["Sales Rank"]), IntV(0))
    THEN ToNumber(p["Sales Rank"])
    ELSE IntV(1000000)

CapOf(p, asItStands) ==
    IF Truthy(p["Sales Badge"]) THEN 8
    ELSE IF NLt(RankForCap(p, asItStands), IntV(100000)) THEN 4
    ELSE 2

UnitsWithin(item, asItStands) ==
    /\ NLe(IntV(1), item["Units"])
    /\ NLe(item["Units"], IntV(CapOf(item, asItStands)))
    /\ item["TotalCost"] = NMul(item["Units"], ToNumber(item["COST"]))
    /\ item["EstProfit"] = NMul(item["Units"], ToNumber(item["Profit"]))

\* one step of the walk on the candidate at pos, as the rule describes it
AllocationStep(asItStands) ==
    LET p         == cands[pos].product
        remaining == NSub(budget, currentSpend)
        units     == NMin(IntV(CapOf(p, asItStands)),
                          NFloor(NDiv(remaining, ToNumber(p["COST"]))))
    IN  IF NLe(remaining, IntV(0))
        THEN orderItems' = orderItems /\ opc' = "done"
        ELSE IF NGt(ToNumber(p["COST"]), remaining)
        THEN orderItems' = orderItems /\ pos' = pos + 1
        ELSE /\ Len(orderItems') = Len(orderItems) + 1
             /\ SubSeq(orderItems', 1, Len(orderItems)) = orderItems
             /\ orderItems'[Len(orderItems')]["Units"] = units
             /\ \A f \in DOMAIN p : orderItems'[Len(orderItems')][f] = p[f]
             /\ pos' = pos + 1

AllocationRule(asItStands) ==
    /\ \A i, j \in DOMAIN cands' : i < j => NGe(cands'[i].score, cands'[j].score)
    /\ \A i \in DOMAIN orderItems' : UnitsWithin(orderItems'[i], asItStands)
    /\ (opc = "walk" /\ pos <= Len(cands)) => AllocationStep(asItStands)

\* C19 (as stated): the walk takes the candidates in descending score order,
\* skips a candidate whose unit cost exceeds the remaining budget, otherwise buys
\* min(cap, floor(remaining / unit cost)) units with cap = 8 for a badge, else 4
\* for Sales Rank < 100,000, else 2; every item has 1 <= Units <= cap,
\* TotalCost = Units * COST, EstProfit = Units * Profit; the walk stops once the
\* budget is exhausted.
C19_GreedyAllocation == [][AllocationRule(TRUE)]_vars

\* C19 (amended): the same rule, the rank threshold applied to the rank with a
\* missing or zero Sales Rank counted as 1,000,000 (so such a record has cap 2).
C19_GreedyAllocationDefaultRank == [][AllocationRule(FALSE)]_vars

C19_Witness ==
    /\ opc = "done"
    /\ Len(cands) > Len(orderItems)
    /\ \E i \in DOMAIN orderItems :
          /\ orderItems[i]["Sales Rank"] = IntV(0)
          /\ orderItems[i]["Units"] = IntV(2)
    /\ \E i \in DOMAIN orderItems :
          NLt(orderItems[i]["Units"], IntV(CapOf(orderItems[i], FALSE)))

\* Amazon itself has the record in stock and shippable
AmazonSells(p) ==
    /\ Includes(ToLowerCase(ToStr(p["Amazon Availability"])), sInStock)
    /\ Includes(ToLowerCase(ToStr(p["Amazon Availability"])), sShippable)

Eligible(p) ==
    /\ NGt(ToNumber(p["ROI"]), IntV(0))
    /\ NGt(ToNumber(p["Profit"]), IntV(0))
    /\ NGt(ToNumber(p["COST"]), IntV(0))
    /\ ~AmazonSells(p)

\* C20: every OrderItem comes from an input record with ROI > 0, Profit > 0,
\* COST > 0 whose Amazon Availability does not contain both 'in stock' and
\* 'shippable', and no input record is used for two items (the items can be
\* assigned to distinct positions of the input list).
C20_OrderFromEligible ==
    \E f \in [DOMAIN orderItems -> DOMAIN products] :
        /\ \A i, j \in DOMAIN orderItems : f[i] = f[j] => i = j
        /\ \A i \in DOMAIN orderItems :
              /\ \A fld \in DOMAIN products[f[i]] :
                     orderItems[i][fld] = products[f[i]][fld]
              /\ Eligible(products[f[i]])

C20_Witness ==
    /\ opc = "done"
    /\ Len(orderItems) = 2
    /\ \E i \in DOMAIN orderItems :
          orderItems[i]["Amazon Availability"] = Str(sAmzOnly)
    /\ \E i \in DOMAIN products :
          AmazonSells(products[i]) /\ NGt(ToNumber(products[i]["ROI"]), IntV(0))

Badged(p) == Truthy(p["Sales Badge"])

\* C21: of two candidates the one with a non-empty Sales Badge has the strictly
\* higher score whatever the ranks and review counts, and in the order every
\* badged item precedes every unbadged item.
C21_BadgeDominates ==
    /\ \A i, j \in DOMAIN cands :
          (Badged(cands[i].product) /\ ~Badged(cands[j].product))
              => NGt(cands[i].score, cands[j].score)
    /\ \A i, j \in DOMAIN orderItems :
          (Badged(orderItems[j]) /\ ~Badged(orderItems[i])) => j < i

\* the weakest badged candidate (no rank score, no reviews) next to the
\* strongest unbadged one (rank 1, capped reviews), given in that input order
C21_Witness ==
    /\ opc = "done"
    /\ Len(products) >= 2
    /\ ~Badged(products[1])
    /\ \E i, j \in DOMAIN cands :
          /\ i < j
          /\ Badged(cands[i].product) /\ cands[i].score = IntV(10000)
          /\ ~Badged(cands[j].product) /\ NGt(cands[j].score, IntV(5099))
    /\ orderItems # <<>> /\ Badged(orderItems[1])

\* the rank part of the score: (500,000 - rank) / 100, never negative, a
\* missing (0) rank counted as 1,000,000
RankScoreOf(p) ==
    NMax(IntV(0), NDiv(NSub(IntV(500000), RankForCap(p, FALSE)), IntV(100)))

Scored == fn = "score" /\ ret # <<>>

\* C22 (as stated): of two candidates with the same badge status, the one with
\* the strictly better rank score never has the lower total score.
C22_ReviewsNeverOutweighRank ==
    (Scored /\ Badged(args[1]) = Badged(args[2])
            /\ NGt(RankScoreOf(args[1]), RankScoreOf(args[2])))
        => NGe(ret[1], ret[2])

\* how far the reviews reach: of two candidates with the same badge status, the
\* one whose rank score is better by at least 100 points (the most the reviews
\* can add) never has the lower total score
ReviewsWithinHundredPoints ==
    (Scored /\ Badged(args[1]) = Badged(args[2])
            /\ NGe(NSub(RankScoreOf(args[1]), RankScoreOf(args[2])), IntV(100)))
        => NGe(ret[1], ret[2])

\* C23: in a mapping returned by detectColumns no two standard fields have the
\* same original header, whatever the header list and the pattern table.
C23_HeaderUsedOnce ==
    fn = "detectColumns" =>
        \A k \in DOMAIN ret : \A s1, s2 \in DOMAIN ret[k] :
            ret[k][s1] = ret[k][s2] => s1 = s2

\* the header 'ASIN' alone: it is the exact match of ASIN and a partial match of
\* the Parent pattern 'Parent ASIN', and only ASIN gets it
C23_Witness ==
    /\ fn = "detectColumns"
    /\ args[1] = <<<<"A", "S", "I", "N">>>>
    /\ args[2] = COLUMN_PATTERNS
    /\ Len(ret) = 1
    /\ DOMAIN ret[1] = {"ASIN"}

\* the most records a pass may process without yielding
ChunkBound == 2 * YieldEvery

RECURSIVE LargestGap(_)
LargestGap(marks) ==
    IF Len(marks) < 2 THEN 0
    ELSE WithValue(LargestGap(Tail(marks)), LAMBDA g :
             IF marks[2] - marks[1] > g THEN marks[2] - marks[1] ELSE g)

\* C24 (as stated): in the profitability pass at most a bounded chunk of records
\* (a few thousand; here twice the reporting interval) is processed between
\* two consecutive yields, or between the start or the end of the pass and the
\* nearest yield, whatever the number of records and the group sizes.
C24_YieldsPeriodically ==
    (fn = "processData" /\ pc \in {"ratingMetrics", "done"}) =>
        LargestGap(<<0>> \o BrainYields(args[1]) \o <<args[1].n>>) <= ChunkBound

\* two cells hold the same value, a missing cell being a value of its own
SameValue(a, b) == IF Truthy(a) THEN a = b ELSE ~Truthy(b)

SameVariant(i) ==
    {j \in DOMAIN processed :
        /\ SameValue(processed[j]["Parent"], processed[i]["Parent"])
        /\ SameValue(processed[j]["Color"], processed[i]["Color"])}

\* the sum of 'Rating Count - Child' over the positions of js up to k
RECURSIVE ChildRatingSum(_, _)
ChildRatingSum(js, k) ==
    IF k = 0 THEN IntV(0)
    ELSE NAdd(ChildRatingSum(js, k - 1),
              IF k \in js THEN ChildRatingOf(processed[k]) ELSE IntV(0))

\* C25 (as stated): after the rating pass every record's 'Total Color Ratings'
\* is the sum of 'Rating Count - Child' over exactly the records with the same
\* Parent and the same Color, a missing Parent or Color being its own value.
C25_TotalColorRatings ==
    pc = "done" =>
        \A i \in DOMAIN processed :
            processed[i]["Total Color Ratings"]
                = ChildRatingSum(SameVariant(i), Len(processed))

\* the candidates of which one more unit fits into the budget left over
StillAffordable ==
    {k \in DOMAIN cands :
        NLe(ToNumber(cands[k].product["COST"]), NSub(budget, currentSpend))}

\* item i is the allocation of candidate k at its full unit cap
FullCapItem(k, i) ==
    /\ \A f \in DOMAIN cands[k].product : orderItems[i][f] = cands[k].product[f]
    /\ orderItems[i]["Units"] = IntV(CapOf(cands[k].product, FALSE))

\* C27: at return every eligible candidate was allocated its full unit cap or
\* costs more per unit than the budget left over (the candidates that are still
\* affordable have, each its own, an item with Units equal to the cap).
C27_GreedyMaximal ==
    opc = "done" =>
        \E f \in [StillAffordable -> DOMAIN orderItems \cup {0}] :
            /\ \A k \in StillAffordable : f[k] # 0 /\ FullCapItem(k, f[k])
            /\ \A k, l \in StillAffordable : f[k] = f[l] => k = l

C27_Witness ==
    /\ opc = "done"
    /\ NGt(NSub(budget, currentSpend), IntV(0))
    /\ \E i \in DOMAIN orderItems :
          orderItems[i]["Units"] = IntV(CapOf(orderItems[i], FALSE))
    /\ \E i \in DOMAIN orderItems :
          /\ NLt(orderItems[i]["Units"], IntV(CapOf(orderItems[i], FALSE)))
          /\ NGt(ToNumber(orderItems[i]["COST"]), NSub(budget, currentSpend))

\* the records of the Parent of position i that are flagged _isBestVariant
BestVariantsOf(i) == {j \in OfParent(i) : Flagged(processed[j], "_isBestVariant")}

\* C28: in the returned list every distinct non-empty Parent has at most one
\* record flagged _isBestVariant, and exactly one when some record of that
\* Parent has 'Rating Count - Child' > 0.
C28_OneBestVariantPerParent ==
    pc = "done" =>
        \A i \in DOMAIN processed :
            Truthy(processed[i]["Parent"]) =>
                /\ Cardinality(BestVariantsOf(i)) <= 1
                /\ (\E j \in OfParent(i) : NGt(ChildRatingOf(processed[j]), IntV(0)))
                      => Cardinality(BestVariantsOf(i)) = 1

\* every non-empty Parent occupies one contiguous run of the returned list
ParentsContiguous ==
    pc = "done" =>
        \A i \in DOMAIN processed :
            Truthy(processed[i]["Parent"]) => OfParent(i) = RunOf(i)

\* the sum of 'Rating Count - Child' over the records of the Parent and Color of
\* position j
VariantTotal(j) == ChildRatingSum(SameVariant(j), Len(processed))

\* the flagged record at j belongs to a colour with the largest total among the
\* non-empty colours of its Parent
BestColorHasLargestTotal(j) ==
    \A k \in OfParent(j) :
        Truthy(processed[k]["Color"]) => NLe(VariantTotal(k), VariantTotal(j))

\* C29 (as stated): after the rating pass every Parent with more than one
\* distinct non-empty Color and a record with 'Rating Count - Child' > 0 has a
\* record flagged _isBestColor, and every flagged record's (Parent, Color)
\* total is the largest total among the non-empty colours of its Parent.
C29_BestColorExists ==
    pc = "done" =>
        \A i \in DOMAIN processed :
            /\ Truthy(processed[i]["Parent"])
            /\ Cardinality(ColorsOfParent(i)) > 1
            /\ \E j \in OfParent(i) : NGt(ChildRatingOf(processed[j]), IntV(0))
            => /\ \E j \in OfParent(i) : Flagged(processed[j], "_isBestColor")
               /\ \A j \in OfParent(i) :
                     Flagged(processed[j], "_isBestColor") => BestColorHasLargestTotal(j)

\* the second half alone: a flagged record never belongs to a lesser colour
FlaggedColorIsLargest ==
    pc = "done" =>
        \A j \in DOMAIN processed :
            Truthy(processed[j]["Parent"]) /\ Flagged(processed[j], "_isBestColor")
                => BestColorHasLargestTotal(j)

CleanedTwice == fn = "cleanProductCode" /\ Len(ret) = 2

\* v, trimmed and without one trailing ".0", consists of letters and digits and
\* is none of the empty markers
PlainCode(v) ==
    LET t == Trim(v)
        c == IF EndsWith(t, sDotZero) THEN SubSeq(t, 1, Len(t) - 2) ELSE t
    IN  /\ \A i \in DOMAIN c : IsAlnum(c[i])
        /\ ToLowerCase(c) \notin EmptyCodes

\* C30 (as stated): cleanProductCode(cleanProductCode(v)) = cleanProductCode(v)
\* for every value v.
C30_CleanIdempotent ==
    CleanedTwice => ret[2] = ret[1]

\* on the codes that are letters and digits with at most one ".0" behind them,
\* cleaning twice gives what cleaning once gives
CleanIdempotentOnPlainCodes ==
    CleanedTwice /\ PlainCode(args[1].s) => ret[2] = ret[1]

\* what processData returns for the arguments a when nothing else runs
RunAlone(a) ==
    calculateRatingMetricsOptimized(processBrainOptimized(SortForGrouping(
        integrateInStockSales(
            integrateCosts(RemoveInvalid(RemoveDuplicates(mapAndSanitize(a.mainData, a.mapping))),
                           a.costData, a.costMapping, a.shippingCost, a.miscCost).processed,
            a.inStockSalesData, a.inStockMapping))))

CostMapBuilt(st) == st.pc \notin {"start", "mapAndSanitize"}

====
